---- MODULE Spec2Model ----
(***************************************************************************)
(* SoundSwap trend scout: the Discord interaction handler, the direct      *)
(* scout endpoint and the search aggregation pipeline                      *)
(* (getRegularSerpData, the two AI-surface fetchers, getEnhancedSerpData). *)
(*                                                                         *)
(* Text is modelled as a sequence of characters (one-character strings),   *)
(* so that toLowerCase, includes, split, slice and join are computed as    *)
(* the code computes them.  A multi-character token inside such a sequence *)
(* stands for that literal piece of a template string.                     *)
(***************************************************************************)
EXTENDS Integers, Sequences, FiniteSets, TLC

\* ------------------------------------------------------------------------
\* Bounds of the model
\* ------------------------------------------------------------------------

\* longest organic_results list of a search response
MaxOrganic == 2
\* longest related_questions list of an AI-surface response
MaxAiQuestions == 2

\* ------------------------------------------------------------------------
\* JavaScript values and string primitives
\* ------------------------------------------------------------------------

\* undefined / a missing field
Undefined == "undefined"

Min(a, b) == IF a < b THEN a ELSE b
Max(a, b) == IF a > b THEN a ELSE b

\* Array.prototype.slice(0, n) and String.prototype.slice(0, n)
Take(s, n) == SubSeq(s, 1, Min(n, Len(s)))

UpperCase == <<"A","B","C","D","E","F","G","H","I","J","K","L","M",
               "N","O","P","Q","R","S","T","U","V","W","X","Y","Z">>
LowerCase == <<"a","b","c","d","e","f","g","h","i","j","k","l","m",
               "n","o","p","q","r","s","t","u","v","w","x","y","z">>

LowerChar(c) ==
  IF \E i \in 1..Len(UpperCase) : UpperCase[i] = c
  THEN LowerCase[CHOOSE i \in 1..Len(UpperCase) : UpperCase[i] = c]
  ELSE c

\* String.prototype.toLowerCase
ToLowerCase(s) == [i \in 1..Len(s) |-> LowerChar(s[i])]

\* String.prototype.includes
Includes(s, sub) ==
  \E i \in 0..(Len(s) - Len(sub)) : SubSeq(s, i + 1, i + Len(sub)) = sub

\* String.prototype.startsWith
StartsWith(s, prefix) ==
  Len(s) >= Len(prefix) /\ SubSeq(s, 1, Len(prefix)) = prefix

\* String.prototype.split(sep) for a one-character separator
Split(s, sep) ==
  LET RECURSIVE F(_, _, _)
      F(i, cur, acc) ==
        IF i > Len(s) THEN Append(acc, cur)
        ELSE IF s[i] = sep THEN F(i + 1, <<>>, Append(acc, cur))
        ELSE F(i + 1, Append(cur, s[i]), acc)
  IN F(1, <<>>, <<>>)

\* Array.prototype.join(sep)
Join(words, sep) ==
  LET RECURSIVE F(_)
      F(i) ==
        IF i > Len(words) THEN <<>>
        ELSE IF i = Len(words) THEN words[i]
        ELSE words[i] \o sep \o F(i + 1)
  IN F(1)

\* the decimal digits of a template substitution ${n}
Digits(n) ==
  LET D == <<"0","1","2","3","4","5","6","7","8","9">>
      RECURSIVE F(_)
      F(k) == IF k < 10 THEN <<D[k + 1]>> ELSE F(k \div 10) \o <<D[(k % 10) + 1]>>
  IN F(n)

\* [...new Set(xs)]: first occurrences, in order
Dedupe(xs) ==
  LET RECURSIVE F(_, _)
      F(i, acc) ==
        IF i > Len(xs) THEN acc
        ELSE IF \E j \in 1..Len(acc) : acc[j] = xs[i] THEN F(i + 1, acc)
        ELSE F(i + 1, Append(acc, xs[i]))
  IN F(1, <<>>)

\* xs.some(d => s.includes(d))
IncludesAny(s, xs) == \E i \in 1..Len(xs) : Includes(s, xs[i])

Range(s) == {s[i] : i \in 1..Len(s)}

\* sequences over S of length at most n
SeqUpTo(S, n) == UNION {[1..k -> S] : k \in 0..n}

\* ------------------------------------------------------------------------
\* generateDailyQueries
\* ------------------------------------------------------------------------

monthlyThemes ==
  <<"AI Music Production Tools", "Music Gear Releases", "Music Industry News",
    "Audio Technology", "Music Business Trends", "Creative Production Techniques">>

aiToolsQueries(month, year) ==
  <<
    <<"l","a","t","e","s","t"," ","A","I"," ","a","u","d","i","o"," ","t","o","o","l","s"," ">> \o Digits(month + 1) \o <<"/">> \o Digits(year),
    <<"A","I"," ","m","u","s","i","c"," ","p","r","o","d","u","c","t","i","o","n"," ","s","o","f","t","w","a","r","e"," ">> \o Digits(year),
    <<"b","e","s","t"," ","A","I"," ","p","l","u","g","i","n","s"," ","f","o","r"," ","p","r","o","d","u","c","e","r","s"," ">> \o Digits(month + 1) \o <<"/">> \o Digits(year),
    <<"A","I"," ","m","a","s","t","e","r","i","n","g"," ","t","o","o","l","s"," ","r","e","v","i","e","w","s"," ">> \o Digits(year),
    <<"a","r","t","i","f","i","c","i","a","l"," ","i","n","t","e","l","l","i","g","e","n","c","e"," ","i","n"," ","m","u","s","i","c"," ","p","r","o","d","u","c","t","i","o","n">>,
    <<"A","I"," ","v","o","c","a","l"," ","p","r","o","c","e","s","s","i","n","g"," ">> \o Digits(month + 1) \o <<" ">> \o Digits(year),
    <<"m","a","c","h","i","n","e"," ","l","e","a","r","n","i","n","g"," ","m","u","s","i","c"," ","c","o","m","p","o","s","i","t","i","o","n">>,
    <<"A","I"," ","b","e","a","t"," ","m","a","k","i","n","g"," ","t","o","o","l","s"," ">> \o Digits(year)
  >>

gearQueries(month, year) ==
  <<
    <<"n","e","w"," ","m","u","s","i","c"," ","p","r","o","d","u","c","t","i","o","n"," ","g","e","a","r"," ">> \o Digits(month + 1) \o <<"/">> \o Digits(year),
    <<"a","u","d","i","o"," ","i","n","t","e","r","f","a","c","e"," ","r","e","l","e","a","s","e","s"," ">> \o Digits(year),
    <<"s","t","u","d","i","o"," ","m","o","n","i","t","o","r"," ","r","e","v","i","e","w","s"," ">> \o Digits(month + 1) \o <<" ">> \o Digits(year),
    <<"M","I","D","I"," ","c","o","n","t","r","o","l","l","e","r"," ","l","a","t","e","s","t"," ","m","o","d","e","l","s"," ">> \o Digits(year),
    <<"s","y","n","t","h","e","s","i","z","e","r"," ","n","e","w"," ","r","e","l","e","a","s","e","s"," ">> \o Digits(month + 1) \o <<"/">> \o Digits(year),
    <<"m","i","c","r","o","p","h","o","n","e","s"," ","f","o","r"," ","h","o","m","e"," ","s","t","u","d","i","o"," ">> \o Digits(year),
    <<"D","A","W"," ","u","p","d","a","t","e","s"," ">> \o Digits(month + 1) \o <<" ">> \o Digits(year),
    <<"m","u","s","i","c"," ","p","r","o","d","u","c","t","i","o","n"," ","h","a","r","d","w","a","r","e"," ">> \o Digits(year)
  >>

newsQueries(month, year) ==
  <<
    <<"m","u","s","i","c"," ","i","n","d","u","s","t","r","y"," ","n","e","w","s"," ">> \o Digits(month + 1) \o <<"/">> \o Digits(year),
    <<"s","t","r","e","a","m","i","n","g"," ","s","e","r","v","i","c","e","s"," ","u","p","d","a","t","e","s"," ">> \o Digits(year),
    <<"m","u","s","i","c"," ","c","o","p","y","r","i","g","h","t"," ","l","a","w","s"," ">> \o Digits(month + 1) \o <<" ">> \o Digits(year),
    <<"a","r","t","i","s","t"," ","r","e","v","e","n","u","e"," ","t","r","e","n","d","s"," ">> \o Digits(year),
    <<"m","u","s","i","c"," ","m","a","r","k","e","t","i","n","g"," ","s","t","r","a","t","e","g","i","e","s"," ">> \o Digits(month + 1) \o <<"/">> \o Digits(year),
    <<"i","n","d","e","p","e","n","d","e","n","t"," ","m","u","s","i","c","i","a","n"," ","n","e","w","s"," ">> \o Digits(year),
    <<"r","e","c","o","r","d"," ","l","a","b","e","l"," ","d","e","v","e","l","o","p","m","e","n","t","s"," ">> \o Digits(month + 1) \o <<" ">> \o Digits(year),
    <<"m","u","s","i","c"," ","d","i","s","t","r","i","b","u","t","i","o","n"," ","p","l","a","t","f","o","r","m","s"," ">> \o Digits(year)
  >>

trendingQueries(month, year) ==
  <<
    <<"v","i","r","a","l"," ","m","u","s","i","c"," ","p","r","o","d","u","c","t","i","o","n"," ","t","r","e","n","d","s"," ">> \o Digits(month + 1) \o <<"/">> \o Digits(year),
    <<"w","h","a","t"," ","p","r","o","d","u","c","e","r","s"," ","a","r","e"," ","t","a","l","k","i","n","g"," ","a","b","o","u","t"," ">> \o Digits(year),
    <<"e","m","e","r","g","i","n","g"," ","m","u","s","i","c"," ","t","e","c","h","n","o","l","o","g","i","e","s"," ">> \o Digits(month + 1) \o <<" ">> \o Digits(year),
    <<"m","u","s","i","c"," ","p","r","o","d","u","c","t","i","o","n"," ","o","n"," ","s","o","c","i","a","l"," ","m","e","d","i","a"," ">> \o Digits(year),
    <<"c","r","e","a","t","i","v","e"," ","w","o","r","k","f","l","o","w","s"," ">> \o Digits(month + 1) \o <<"/">> \o Digits(year),
    <<"m","u","s","i","c"," ","c","o","l","l","a","b","o","r","a","t","i","o","n"," ","t","o","o","l","s"," ">> \o Digits(year),
    <<"h","o","m","e"," ","s","t","u","d","i","o"," ","s","e","t","u","p"," ","t","r","e","n","d","s"," ">> \o Digits(month + 1) \o <<" ">> \o Digits(year),
    <<"m","u","s","i","c"," ","e","d","u","c","a","t","i","o","n"," ","o","n","l","i","n","e"," ">> \o Digits(year)
  >>

\* generateDailyQueries with the hour of the day in the AI-tools index
generateDailyQueriesByHour(now) ==
  LET dayOfWeek == now.dayOfWeek
      dayOfMonth == now.dayOfMonth
      weekOfYear == (dayOfMonth \div 7) + 1
      month == now.month
      year == now.year
      dayIndex == dayOfMonth % 8
      weekIndex == weekOfYear % 8
      dayOfWeekIndex == dayOfWeek
  IN [queries |->
        << aiToolsQueries(month, year)[((dayIndex + dayOfWeekIndex + now.hour) % 8) + 1],
           gearQueries(month, year)[((dayIndex + weekIndex) % 8) + 1],
           newsQueries(month, year)[((dayOfMonth + dayOfWeekIndex) % 8) + 1],
           trendingQueries(month, year)[((dayIndex + month) % 8) + 1] >>,
      theme |-> monthlyThemes[(month % Len(monthlyThemes)) + 1],
      dateInfo |-> [dayOfWeek |-> dayOfWeek, dayOfMonth |-> dayOfMonth,
                    month |-> month + 1, year |-> year]]

\* the four queries and the theme for a date
\* now = [dayOfWeek (0 = Sunday), dayOfMonth, month (0-11), year, hour]
generateDailyQueries(now) ==
  LET dayOfWeek == now.dayOfWeek
      dayOfMonth == now.dayOfMonth
      weekOfYear == (dayOfMonth \div 7) + 1
      month == now.month
      year == now.year
      dayIndex == dayOfMonth % 8
      weekIndex == weekOfYear % 8
      dayOfWeekIndex == dayOfWeek
  IN [queries |->
        << aiToolsQueries(month, year)[((dayIndex + dayOfWeekIndex) % 8) + 1],
           gearQueries(month, year)[((dayIndex + weekIndex) % 8) + 1],
           newsQueries(month, year)[((dayOfMonth + dayOfWeekIndex) % 8) + 1],
           trendingQueries(month, year)[((dayIndex + month) % 8) + 1] >>,
      theme |-> monthlyThemes[(month % Len(monthlyThemes)) + 1],
      dateInfo |-> [dayOfWeek |-> dayOfWeek, dayOfMonth |-> dayOfMonth,
                    month |-> month + 1, year |-> year]]

\* calendar dates the process can run on: 2026-07-06 (a Monday) and
\* 2026-01-08 (a Thursday)
Dates ==
  { [dayOfWeek |-> 1, dayOfMonth |-> 6, month |-> 6, year |-> 2026, hour |-> 0],
    [dayOfWeek |-> 4, dayOfMonth |-> 8, month |-> 0, year |-> 2026, hour |-> 0] }

\* excludedDomains, premiumDomains, industryDomains: the hostname substring lists
excludedDomains ==
  <<
    <<"f","a","c","e","b","o","o","k",".","c","o","m">>,
    <<"t","w","i","t","t","e","r",".","c","o","m">>,
    <<"i","n","s","t","a","g","r","a","m",".","c","o","m">>,
    <<"y","o","u","t","u","b","e",".","c","o","m">>,
    <<"r","e","d","d","i","t",".","c","o","m">>,
    <<"t","i","k","t","o","k",".","c","o","m">>,
    <<"p","i","n","t","e","r","e","s","t",".","c","o","m">>,
    <<"l","i","n","k","e","d","i","n",".","c","o","m">>,
    <<"q","u","o","r","a",".","c","o","m">>,
    <<"w","i","k","i","p","e","d","i","a",".","o","r","g">>,
    <<"y","e","l","p",".","c","o","m">>,
    <<"a","m","a","z","o","n",".","c","o","m">>,
    <<"e","b","a","y",".","c","o","m">>,
    <<"e","t","s","y",".","c","o","m">>,
    <<"s","p","o","t","i","f","y",".","c","o","m">>
  >>
premiumDomains ==
  <<
    <<"m","u","s","i","c","t","e","c","h",".","c","o","m">>,
    <<"m","u","s","i","c","a","l","l","y",".","c","o","m">>,
    <<"d","i","g","i","t","a","l","m","u","s","i","c","n","e","w","s",".","c","o","m">>,
    <<"b","i","l","l","b","o","a","r","d",".","c","o","m">>,
    <<"r","o","l","l","i","n","g","s","t","o","n","e",".","c","o","m">>,
    <<"n","m","e",".","c","o","m">>,
    <<"v","a","r","i","e","t","y",".","c","o","m">>,
    <<"s","o","u","n","d","o","n","s","o","u","n","d",".","c","o","m">>,
    <<"m","u","s","i","c","r","a","d","a","r",".","c","o","m">>,
    <<"p","r","o","d","u","c","e","r","s","p","o","t",".","c","o","m">>,
    <<"a","t","t","a","c","k","m","a","g","a","z","i","n","e",".","c","o","m">>,
    <<"f","u","t","u","r","e","m","u","s","i","c",".","c","o","m">>,
    <<"t","h","e","w","i","r","e",".","c","o",".","u","k">>,
    <<"r","e","s","i","d","e","n","t","a","d","v","i","s","o","r",".","n","e","t">>,
    <<"m","i","x","m","a","g",".","n","e","t">>
  >>
industryDomains ==
  <<
    <<"t","h","e","v","e","r","g","e",".","c","o","m">>,
    <<"t","e","c","h","c","r","u","n","c","h",".","c","o","m">>,
    <<"w","i","r","e","d",".","c","o","m">>,
    <<"e","n","g","a","d","g","e","t",".","c","o","m">>,
    <<"a","r","s","t","e","c","h","n","i","c","a",".","c","o","m">>,
    <<"g","i","z","m","o","d","o",".","c","o","m">>,
    <<"f","o","r","b","e","s",".","c","o","m">>,
    <<"b","u","s","i","n","e","s","s","i","n","s","i","d","e","r",".","c","o","m">>,
    <<"b","l","o","o","m","b","e","r","g",".","c","o","m">>,
    <<"r","e","u","t","e","r","s",".","c","o","m">>,
    <<"a","p","n","e","w","s",".","c","o","m">>,
    <<"b","b","c",".","c","o","m">>
  >>

\* the keyword groups of the category chain
aiKeywords ==
  <<
    <<"a","i">>,
    <<"a","r","t","i","f","i","c","i","a","l">>
  >>
gearKeywords ==
  <<
    <<"g","e","a","r">>,
    <<"h","a","r","d","w","a","r","e">>,
    <<"e","q","u","i","p","m","e","n","t">>
  >>
newsKeywords ==
  <<
    <<"n","e","w","s">>,
    <<"i","n","d","u","s","t","r","y">>,
    <<"t","r","e","n","d">>
  >>
productionKeywords ==
  <<
    <<"p","r","o","d","u","c","t","i","o","n">>,
    <<"s","t","u","d","i","o">>,
    <<"r","e","c","o","r","d","i","n","g">>
  >>

\* ------------------------------------------------------------------------
\* Search API payloads
\* ------------------------------------------------------------------------
\* A text of which only identity and length matter (a title, a snippet) is
\* [id, len]; the empty string (falsy, as a missing field is) has len 0.
Text(id, len) == [id |-> id, len |-> len]
NoText == Text("", 0)

\* A URL string: its text, whether new URL() accepts it, and its hostname.
Url(text, host) == [text |-> text, valid |-> TRUE, host |-> host]
BadUrl(text) == [text |-> text, valid |-> FALSE, host |-> <<>>]
NoUrl == BadUrl("")

\* A JSON array field: absent, or an array of items.
NoArray == [defined |-> FALSE, items |-> <<>>]
Array(items) == [defined |-> TRUE, items |-> items]

\* An element of a questions array: an object with or without a question
\* field, a bare string, or null.
QuestionObject(q) == [type |-> "object", question |-> q]
QuestionString(q) == [type |-> "string", question |-> q]
NullItem == [type |-> "null", question |-> <<>>]

\* A function result: a value, or an exception.
Returned(v) == [threw |-> FALSE, value |-> v]
Thrown == [threw |-> TRUE, value |-> <<>>]

\* ------------------------------------------------------------------------
\* getRegularSerpData
\* ------------------------------------------------------------------------

\* bestResult = {} before the loop
EmptyResult ==
  [link |-> NoUrl, title |-> NoText, snippet |-> NoText, date |-> FALSE,
   hostname |-> <<>>, qualityScore |-> 0]

\* the heuristic score of one organic result that passed the exclusion filter
currentScore(result, hostname) ==
    (IF IncludesAny(hostname, premiumDomains) THEN 30
     ELSE IF IncludesAny(hostname, industryDomains) THEN 20
     ELSE 0)
  + (IF result.title.len > 20 /\ result.title.len < 100 THEN 10 ELSE 0)
  + (IF result.snippet.len > 100 THEN 15 ELSE 0)
  + (IF result.date THEN 10 ELSE 0)

\* the hostname test that drops a result
isExcluded(hostname) == IncludesAny(hostname, excludedDomains)

\* the for-loop over organic: [threw, bestResult, qualityScore]
findBestResult(organic) ==
  LET RECURSIVE F(_, _, _)
      F(i, bestResult, qualityScore) ==
        IF i > Len(organic)
        THEN [threw |-> FALSE, bestResult |-> bestResult, qualityScore |-> qualityScore]
        ELSE LET result == organic[i] IN
          IF result.type = "null"
          THEN [threw |-> TRUE, bestResult |-> bestResult, qualityScore |-> qualityScore]
          ELSE IF result.link.text = "" \/ result.title.len = 0
          THEN F(i + 1, bestResult, qualityScore)
          ELSE IF ~result.link.valid
          THEN F(i + 1, bestResult, qualityScore)
          ELSE LET hostname == ToLowerCase(result.link.host) IN
            IF isExcluded(hostname)
            THEN F(i + 1, bestResult, qualityScore)
            ELSE IF currentScore(result, hostname) > qualityScore
            THEN F(i + 1,
                   [link |-> result.link, title |-> result.title,
                    snippet |-> result.snippet, date |-> result.date,
                    hostname |-> hostname,
                    qualityScore |-> currentScore(result, hostname)],
                   currentScore(result, hostname))
            ELSE F(i + 1, bestResult, qualityScore)
  IN F(1, EmptyResult, 0)

unknownHost == <<"u","n","k","n","o","w","n">>

\* "If no result found, use first organic result"
firstOrganicFallback(bestResult, organic) ==
  IF bestResult.title.len = 0 /\ Len(organic) > 0
  THEN [link |-> organic[1].link, title |-> organic[1].title,
        snippet |-> organic[1].snippet, date |-> organic[1].date,
        hostname |-> IF organic[1].link.valid THEN organic[1].link.host
                     ELSE unknownHost,
        qualityScore |-> 5]
  ELSE bestResult

\* the forEach over one question source: [threw, questions]
pushQuestions(source, questions) ==
  LET items == Take(source.items, 5)
      RECURSIVE F(_, _)
      F(i, qs) ==
        IF i > Len(items) THEN [threw |-> FALSE, questions |-> qs]
        ELSE IF items[i].type = "null" THEN [threw |-> TRUE, questions |-> qs]
        ELSE IF items[i].type = "object"
        THEN F(i + 1, IF Len(items[i].question) > 0
                      THEN Append(qs, items[i].question) ELSE qs)
        ELSE F(i + 1, Append(qs, items[i].question))
  IN F(1, questions)

\* the loop over the four question sources, left once 3 questions are held
extractQuestions(questionSources) ==
  LET RECURSIVE F(_, _)
      F(k, qs) ==
        IF k > Len(questionSources) THEN [threw |-> FALSE, questions |-> qs]
        ELSE IF questionSources[k].defined /\ Len(questionSources[k].items) > 0
        THEN LET r == pushQuestions(questionSources[k], qs) IN
             IF r.threw THEN r
             ELSE IF Len(r.questions) >= 3 THEN r
             ELSE F(k + 1, r.questions)
        ELSE F(k + 1, qs)
  IN F(1, <<>>)

\* the synthesized questions of getRegularSerpData
regularFallbacks(query, year) ==
  LET queryWords == Take(Split(ToLowerCase(query), " "), 4)
      two == Join(Take(queryWords, 2), <<" ">>)
  IN << <<"What are the latest developments in ">>
          \o Join(Take(queryWords, 3), <<" ">>) \o <<"?">>,
        <<"How is ">> \o two \o <<" impacting modern music production?">>,
        <<"What should producers know about ">> \o two \o <<" in ">>
          \o Digits(year) \o <<"?">>,
        <<"How can artists use ">> \o two \o <<" to improve their workflow?">> >>

\* withFallbackQuestions that synthesizes nothing
withFoundQuestionsOnly(questions, query, year) == questions

\* "Generate fallback questions if needed"
withFallbackQuestions(questions, query, year) ==
  IF Len(questions) < 3
  THEN questions \o Take(regularFallbacks(query, year), 5 - Len(questions))
  ELSE questions

\* "Calculate base trend score"
baseTrendScore(totalResults, qualityScore, questions) ==
  LET s0 == 40 + 25
      s1 == s0 + (IF totalResults > 1000000 THEN 10 ELSE 0)
      s2 == s1 + (IF totalResults > 5000000 THEN 5 ELSE 0)
      s3 == s2 + (IF qualityScore > 30 THEN 15
                  ELSE IF qualityScore > 20 THEN 10
                  ELSE IF qualityScore > 10 THEN 5 ELSE 0)
      s4 == s3 + (IF Len(questions) >= 3 THEN 5 ELSE 0)
  IN Min(Max(s4, 40), 95)

noLinkFound == Url("https://example.com/no-link-found", <<"e","x","a","m","p","l","e",".","c","o","m">>)

\* getRegularSerpData(query, context) on a fetch outcome: the fetch or
\* response.json() throws, or searchData is the parsed response.
\* The function has no category in what it returns.
getRegularSerpData(query, year, fetched) ==
  IF fetched.threw THEN Thrown
  ELSE LET searchData == fetched.value
           organic == IF searchData.organic_results.defined
                      THEN searchData.organic_results.items ELSE <<>>
           found == findBestResult(organic)
           bestResult == firstOrganicFallback(found.bestResult, organic)
           questionSources ==
             << searchData.related_questions,
                searchData.related_questions_and_answers,
                searchData.inline_questions,
                IF Len(organic) > 0 THEN organic[1].related_questions ELSE NoArray >>
           extracted == extractQuestions(questionSources)
           questions == withFallbackQuestions(extracted.questions, query, year)
           totalResults == searchData.total_results
       IN IF found.threw \/ extracted.threw THEN Thrown
          ELSE Returned(
            [query |-> query,
             score |-> baseTrendScore(totalResults, found.qualityScore, questions),
             link |-> IF bestResult.link.text # "" THEN bestResult.link ELSE noLinkFound,
             title |-> IF bestResult.title.len > 0 THEN bestResult.title
                       ELSE Text("Latest updates: ", 16 + Min(50, Len(query))),
             snippet |-> IF bestResult.snippet.len > 0 THEN bestResult.snippet
                         ELSE Text("Stay informed about ", 23 + Min(30, Len(query))),
             questions |-> Take(Dedupe(questions), 5),
             total_results |-> totalResults,
             quality_score |-> found.qualityScore,
             source |-> IF Len(bestResult.hostname) > 0 THEN bestResult.hostname
                        ELSE unknownHost,
             category |-> Undefined])

\* ------------------------------------------------------------------------
\* getGoogleAIModeData, getGoogleAIOverviewData
\* ------------------------------------------------------------------------

\* An element of an AI-mode organic_results array: an object with or
\* without a snippet, or null.
AiResult(snippet) == [type |-> "object", snippet |-> snippet]
NullResult == [type |-> "null", snippet |-> NoText]

\* The ai_overview object of a response: absent, or {text, questions};
\* text is a string, or (textIsString FALSE) some other truthy value.
NoOverview ==
  [defined |-> FALSE, text |-> NoText, textIsString |-> TRUE, questions |-> NoArray]
Overview(text, textIsString, questions) ==
  [defined |-> TRUE, text |-> text, textIsString |-> textIsString,
   questions |-> questions]

\* The parsed JSON of an AI-surface response.
AiPayload(error, organic_results, related_questions, ai_overview) ==
  [isNull |-> FALSE, error |-> error, organic_results |-> organic_results,
   related_questions |-> related_questions, ai_overview |-> ai_overview]
NullData ==
  [isNull |-> TRUE, error |-> FALSE, organic_results |-> NoArray,
   related_questions |-> NoArray, ai_overview |-> NoOverview]

\* getGoogleAIModeData(query) on a fetch outcome: null when the fetch
\* throws or the response carries an error field, else the response
getGoogleAIModeData(fetched) ==
  IF fetched.threw THEN NullData
  ELSE IF fetched.value.error THEN NullData
  ELSE fetched.value

\* getGoogleAIOverviewData(query) on a fetch outcome
getGoogleAIOverviewData(fetched) ==
  IF fetched.threw THEN NullData
  ELSE IF fetched.value.error THEN NullData
  ELSE fetched.value

\* ------------------------------------------------------------------------
\* getEnhancedSerpData
\* ------------------------------------------------------------------------

\* xs.slice(0, 5).map(q => q.question || q).filter(q => q && typeof q === 'string')
\* [threw, questions]: reading .question of null throws
surfaceQuestions(array) ==
  LET items == Take(array.items, 5)
      RECURSIVE F(_, _)
      F(i, qs) ==
        IF i > Len(items) THEN [threw |-> FALSE, questions |-> qs]
        ELSE IF items[i].type = "null" THEN [threw |-> TRUE, questions |-> qs]
        ELSE F(i + 1, IF Len(items[i].question) > 0
                      THEN Append(qs, items[i].question) ELSE qs)
  IN F(1, <<>>)

\* organic_results.slice(0, 3).filter(r => r.snippet).map(r => r.snippet)
\* [threw, insights]
modeInsights(array) ==
  LET items == Take(array.items, 3)
      RECURSIVE F(_, _)
      F(i, acc) ==
        IF i > Len(items) THEN [threw |-> FALSE, insights |-> acc]
        ELSE IF items[i].type = "null" THEN [threw |-> TRUE, insights |-> acc]
        ELSE F(i + 1, IF items[i].snippet.len > 0
                      THEN Append(acc, items[i].snippet) ELSE acc)
  IN F(1, <<>>)

\* "Extract from AI Mode": [threw, questions, insights]
extractAIMode(aiMode, combinedQuestions) ==
  IF ~aiMode.isNull /\ aiMode.organic_results.defined
  THEN LET ins == modeInsights(aiMode.organic_results)
           qs == IF aiMode.related_questions.defined
                 THEN surfaceQuestions(aiMode.related_questions)
                 ELSE [threw |-> FALSE, questions |-> <<>>]
       IN [threw |-> ins.threw \/ qs.threw,
           questions |-> combinedQuestions \o qs.questions,
           insights |-> ins.insights]
  ELSE [threw |-> FALSE, questions |-> combinedQuestions, insights |-> <<>>]

\* overview.text.substring(0, 200) + '...'
overviewInsight(text) == Text(text.id, Min(text.len, 200) + 3)

\* "Extract from AI Overview": [threw, questions, insights]
extractAIOverview(aiOverview, combinedQuestions, aiInsights) ==
  IF ~aiOverview.isNull /\ aiOverview.ai_overview.defined
  THEN LET overview == aiOverview.ai_overview
           hasText == overview.text.len > 0 \/ ~overview.textIsString
           qs == IF overview.questions.defined
                 THEN surfaceQuestions(overview.questions)
                 ELSE [threw |-> FALSE, questions |-> <<>>]
       IN [threw |-> (hasText /\ ~overview.textIsString) \/ qs.threw,
           questions |-> combinedQuestions \o qs.questions,
           insights |-> IF hasText /\ overview.textIsString
                        THEN Append(aiInsights, overviewInsight(overview.text))
                        ELSE aiInsights]
  ELSE [threw |-> FALSE, questions |-> combinedQuestions, insights |-> aiInsights]

\* enhancedTrendScore with the upper clamp left out
enhancedTrendScoreNoUpperClamp(baseScore, aiMode, aiOverview, aiInsights) ==
  LET s0 == IF baseScore = 0 THEN 40 ELSE baseScore
      s1 == s0 + (IF ~aiMode.isNull \/ ~aiOverview.isNull THEN 15 ELSE 0)
      s2 == s1 + (IF ~aiMode.isNull /\ ~aiOverview.isNull THEN 10 ELSE 0)
      s3 == s2 + (IF Len(aiInsights) > 0 THEN Min(Len(aiInsights) * 3, 15) ELSE 0)
  IN Max(s3, 40)

\* enhancedTrendScore with the "Multiple AI sources bonus" left out
enhancedTrendScoreNoBothBonus(baseScore, aiMode, aiOverview, aiInsights) ==
  LET s0 == IF baseScore = 0 THEN 40 ELSE baseScore
      s1 == s0 + (IF ~aiMode.isNull \/ ~aiOverview.isNull THEN 15 ELSE 0)
      s3 == s1 + (IF Len(aiInsights) > 0 THEN Min(Len(aiInsights) * 3, 15) ELSE 0)
  IN Min(Max(s3, 40), 100)

\* "Calculate enhanced trend score with AI bonus" down to "Clamp score"
enhancedTrendScore(baseScore, aiMode, aiOverview, aiInsights) ==
  LET s0 == IF baseScore = 0 THEN 40 ELSE baseScore
      s1 == s0 + (IF ~aiMode.isNull \/ ~aiOverview.isNull THEN 15 ELSE 0)
      s2 == s1 + (IF ~aiMode.isNull /\ ~aiOverview.isNull THEN 10 ELSE 0)
      s3 == s2 + (IF Len(aiInsights) > 0 THEN Min(Len(aiInsights) * 3, 15) ELSE 0)
  IN Min(Max(s3, 40), 100)

\* the '🤖 ' prefix of a status
aiMarker == <<"AI">>

\* determineStatus with a fourth label above 90
determineStatusExtraLabel(trendScore, aiMode, aiOverview) ==
  LET status == IF trendScore > 90 THEN <<"HOT">>
                ELSE IF trendScore > 75 THEN <<"VIRAL">>
                ELSE IF trendScore > 60 THEN <<"TRENDING">>
                ELSE <<"STEADY">>
  IN IF ~aiMode.isNull \/ ~aiOverview.isNull THEN aiMarker \o status ELSE status

\* determineStatus with the AI indicator tied to the AI-mode data alone
determineStatusModeOnly(trendScore, aiMode, aiOverview) ==
  LET status == IF trendScore > 75 THEN <<"VIRAL">>
                ELSE IF trendScore > 60 THEN <<"TRENDING">>
                ELSE <<"STEADY">>
  IN IF ~aiMode.isNull THEN aiMarker \o status ELSE status

\* "Determine status"
determineStatus(trendScore, aiMode, aiOverview) ==
  LET status == IF trendScore > 75 THEN <<"VIRAL">>
                ELSE IF trendScore > 60 THEN <<"TRENDING">>
                ELSE <<"STEADY">>
  IN IF ~aiMode.isNull \/ ~aiOverview.isNull THEN aiMarker \o status ELSE status

\* the category chain with the NEWS test placed first
categorizeNewsFirst(query, baseCategory) ==
  LET queryLower == ToLowerCase(query) IN
  IF IncludesAny(queryLower, newsKeywords) THEN "NEWS"
  ELSE IF IncludesAny(queryLower, aiKeywords) THEN "AI TOOLS"
  ELSE IF IncludesAny(queryLower, gearKeywords) THEN "GEAR"
  ELSE IF IncludesAny(queryLower, productionKeywords) THEN "PRODUCTION"
  ELSE baseCategory

\* "Categorize the topic"
categorize(query, baseCategory) ==
  LET queryLower == ToLowerCase(query) IN
  IF IncludesAny(queryLower, aiKeywords) THEN "AI TOOLS"
  ELSE IF IncludesAny(queryLower, gearKeywords) THEN "GEAR"
  ELSE IF IncludesAny(queryLower, newsKeywords) THEN "NEWS"
  ELSE IF IncludesAny(queryLower, productionKeywords) THEN "PRODUCTION"
  ELSE baseCategory

errorSource == <<"e","r","r","o","r">>

getFallbackSerpData(query) ==
  LET words == Split(query, " ")
      two == Join(Take(words, 2), <<" ">>)
  IN [query |-> query,
      category |-> "ERROR",
      score |-> 40,
      link |-> noLinkFound,
      title |-> Text("Latest updates on ", 18 + Len(query)),
      snippet |-> Text("Stay informed about the latest developments in ",
                       47 + Len(query)),
      questions |->
        << <<"What are the latest trends in ">> \o Join(Take(words, 3), <<" ">>)
             \o <<"?">>,
           <<"How is ">> \o two \o <<" impacting music production?">>,
           <<"What should producers know about ">> \o two \o <<"?">> >>,
      status |-> <<"ERROR">>,
      total_results |-> 0,
      quality_score |-> 0,
      source |-> errorSource,
      ai_enhanced |-> FALSE,
      ai_insights |-> <<>>]

\* uniqueQuestions without the slice(0, 7)
uniqueQuestionsUncapped(combinedQuestions) == Dedupe(combinedQuestions)

\* "Remove duplicates and limit"
uniqueQuestions(combinedQuestions) == Take(Dedupe(combinedQuestions), 7)

\* one entry of Promise.allSettled's result
Pending == [status |-> "pending", value |-> <<>>]
Settled(r) ==
  IF r.threw THEN [status |-> "rejected", value |-> <<>>]
  ELSE [status |-> "fulfilled", value |-> r.value]

\* the try block of getEnhancedSerpData after Promise.allSettled
aggregate(query, regularData, aiModeData, aiOverviewData) ==
  IF regularData.status # "fulfilled" THEN Thrown
  ELSE LET searchData == regularData.value
           aiMode == IF aiModeData.status = "fulfilled"
                     THEN aiModeData.value ELSE NullData
           aiOverview == IF aiOverviewData.status = "fulfilled"
                         THEN aiOverviewData.value ELSE NullData
           m == extractAIMode(aiMode, searchData.questions)
           o == extractAIOverview(aiOverview, m.questions, m.insights)
           trendScore == enhancedTrendScore(searchData.score, aiMode, aiOverview,
                                            o.insights)
       IN IF m.threw \/ o.threw THEN Thrown
          ELSE Returned(
            [query |-> query,
             category |-> categorize(query, searchData.category),
             score |-> trendScore,
             link |-> searchData.link,
             title |-> searchData.title,
             snippet |-> searchData.snippet,
             questions |-> uniqueQuestions(o.questions),
             status |-> determineStatus(trendScore, aiMode, aiOverview),
             total_results |-> searchData.total_results,
             quality_score |-> searchData.quality_score,
             source |-> searchData.source,
             ai_enhanced |-> ~aiMode.isNull \/ ~aiOverview.isNull,
             ai_insights |-> Take(o.insights, 2)])

\* getEnhancedSerpData with a catch block that rethrows
getEnhancedSerpDataRethrows(query, regularData, aiModeData, aiOverviewData) ==
  aggregate(query, regularData, aiModeData, aiOverviewData)

\* getEnhancedSerpData: the catch block turns every exception of the try
\* block into the fallback report
getEnhancedSerpData(query, regularData, aiModeData, aiOverviewData) ==
  LET r == aggregate(query, regularData, aiModeData, aiOverviewData) IN
  IF r.threw THEN Returned(getFallbackSerpData(query)) ELSE r

\* ------------------------------------------------------------------------
\* Inputs: what the search API can answer
\* ------------------------------------------------------------------------

host_youtube == <<"w","w","w",".","y","o","u","t","u","b","e",".","c","o","m">>
host_facebook == <<"m",".","f","a","c","e","b","o","o","k",".","c","o","m">>
host_musictech == <<"m","u","s","i","c","t","e","c","h",".","c","o","m">>
host_theverge == <<"w","w","w",".","t","h","e","v","e","r","g","e",".","c","o","m">>
host_blog == <<"b","l","o","g",".","e","x","a","m","p","l","e",".","o","r","g">>

OrganicResult(link, title, snippet, date, related_questions) ==
  [type |-> "object", link |-> link, title |-> title, snippet |-> snippet,
   date |-> date, related_questions |-> related_questions]
NullOrganic ==
  [type |-> "null", link |-> NoUrl, title |-> NoText, snippet |-> NoText,
   date |-> FALSE, related_questions |-> NoArray]

\* upstream question texts
q1 == <<"How does AI mastering work?">>
q2 == <<"What is the best AI mastering tool?">>
q3 == <<"How to use AI in a home studio?">>
q4 == <<"Is AI mastering worth it?">>
q5 == <<"AI mastering vs human mastering?">>
q6 == <<"Can AI make music?">>

r_youtube ==
  OrganicResult(Url("https://www.youtube.com/watch", host_youtube),
                Text("yt-title", 40), Text("yt-snippet", 150), TRUE, NoArray)
r_facebook ==
  OrganicResult(Url("https://m.facebook.com/post", host_facebook),
                Text("fb-title", 30), NoText, FALSE, NoArray)
r_musictech ==
  OrganicResult(Url("https://musictech.com/review", host_musictech),
                Text("mt-title", 45), Text("mt-snippet", 150), TRUE, NoArray)
r_musictech_short ==
  OrganicResult(Url("https://musictech.com/news", host_musictech),
                Text("mt-short", 10), NoText, FALSE, NoArray)
r_theverge ==
  OrganicResult(Url("https://www.theverge.com/ai", host_theverge),
                Text("verge-title", 45), NoText, FALSE,
                Array(<<QuestionObject(q4)>>))
r_blog ==
  OrganicResult(Url("https://blog.example.org/post", host_blog),
                Text("blog-title", 45), Text("blog-snippet", 101), FALSE, NoArray)
r_blog_plain ==
  OrganicResult(Url("https://blog.example.org/x", host_blog),
                Text("blog-short", 20), Text("blog-brief", 100), FALSE, NoArray)
r_badurl ==
  OrganicResult(BadUrl("not a url"), Text("bad-title", 45), NoText, TRUE, NoArray)
r_nolink ==
  OrganicResult(NoUrl, Text("nolink-title", 45), NoText, FALSE, NoArray)

OrganicPool ==
  { r_youtube, r_facebook, r_musictech, r_musictech_short, r_theverge, r_blog,
    r_blog_plain, r_badurl, r_nolink, NullOrganic }

\* related_questions, related_questions_and_answers, inline_questions
QuestionFields ==
  { <<NoArray, NoArray, NoArray>>,
    <<Array(<<>>), NoArray, NoArray>>,
    <<Array(<<QuestionObject(q1)>>), NoArray, NoArray>>,
    <<Array(<<QuestionObject(q1), QuestionString(q2)>>), NoArray,
      Array(<<QuestionObject(q1)>>)>>,
    <<Array(<<QuestionObject(q1), QuestionString(q2), QuestionObject(q3)>>),
      Array(<<QuestionObject(q5)>>), NoArray>>,
    <<Array(<<QuestionObject(q1), QuestionObject(q2), QuestionObject(q3),
              QuestionObject(q4), QuestionObject(q5), QuestionObject(q6)>>),
      NoArray, NoArray>>,
    <<Array(<<QuestionObject(q1), QuestionObject(<<>>)>>),
      Array(<<QuestionString(q5), QuestionObject(q1)>>),
      Array(<<QuestionObject(q6)>>)>>,
    <<NoArray, Array(<<NullItem>>), NoArray>> }

\* search_information.total_results (0 when absent)
TotalResults == {0, 1000000, 1000001, 5000001, 10000001}

SearchResponse(organic_results, fields, total_results) ==
  [organic_results |-> organic_results,
   related_questions |-> fields[1],
   related_questions_and_answers |-> fields[2],
   inline_questions |-> fields[3],
   total_results |-> total_results]

\* outcomes of the search fetch for organic lists drawn from pool
RegularFetchesOver(organicLists, fields, totals) ==
  {Thrown} \cup
  { Returned(SearchResponse(o, f, t)) :
      o \in {NoArray} \cup {Array(l) : l \in organicLists},
      f \in fields, t \in totals }

RegularFetches ==
  RegularFetchesOver(SeqUpTo(OrganicPool, MaxOrganic), QuestionFields, TotalResults)

\* the narrower inputs used where three fetches are combined
SerpFetches ==
  RegularFetchesOver(
    { <<>>, <<r_musictech>> },
    { f \in QuestionFields :
        /\ f[2] = NoArray /\ f[3] = NoArray
        /\ f[1].defined => Len(f[1].items) > 0 },
    {0, 5000001})

\* questions an AI surface can return: the first k of these
a1 == <<"Which AI tools do producers use?">>
a2 == <<"Is AI music copyrighted?">>
a3 == <<"What is generative audio?">>
o1 == <<"What does an AI overview say about mastering?">>
o2 == <<"How accurate are AI overviews?">>

aiModeQuestionList ==
  << QuestionObject(a1), QuestionString(q1), QuestionObject(a2),
     QuestionObject(<<>>), QuestionString(a3) >>
aiOverviewQuestionList ==
  << QuestionObject(o1), QuestionObject(o2), QuestionString(a1),
     QuestionString(<<>>), QuestionObject(q2) >>

QuestionArrays(list) ==
  {NoArray, Array(<<NullItem>>)} \cup {Array(Take(list, k)) : k \in 0..MaxAiQuestions}

s1 == Text("ai-snippet-1", 120)
s2 == Text("ai-snippet-2", 80)
s3 == Text("ai-snippet-3", 60)
s4 == Text("ai-snippet-4", 60)

AiModeOrganic ==
  { NoArray,
    Array(<<AiResult(s1), AiResult(NoText), AiResult(s2), AiResult(s4)>>),
    Array(<<AiResult(s1), AiResult(s2), AiResult(s3), AiResult(s4)>>),
    Array(<<AiResult(s1), NullResult>>) }

\* outcomes of the AI-mode fetch
AiModeFetches ==
  {Thrown, Returned(AiPayload(TRUE, NoArray, NoArray, NoOverview))} \cup
  { Returned(AiPayload(FALSE, o, rq, NoOverview)) :
      o \in AiModeOrganic, rq \in QuestionArrays(aiModeQuestionList) }

OverviewTexts ==
  { <<NoText, TRUE>>, <<Text("overview-text", 250), TRUE>>,
    <<Text("overview-blocks", 1), FALSE>> }

\* outcomes of the AI-overview fetch
AiOverviewFetches ==
  {Thrown, Returned(AiPayload(TRUE, NoArray, NoArray, NoOverview)),
   Returned(AiPayload(FALSE, NoArray, NoArray, NoOverview))} \cup
  { Returned(AiPayload(FALSE, NoArray, NoArray, Overview(t[1], t[2], qs))) :
      t \in OverviewTexts, qs \in QuestionArrays(aiOverviewQuestionList) }

\* topics a user can pass to /outlines
OutlineTopics ==
  { <<"A","I"," ","n","e","w","s">> }

\* ------------------------------------------------------------------------
\* organizePaaIntoNarrative
\* ------------------------------------------------------------------------

beginnerKeywords == << <<"h","o","w"," ","t","o">>, <<"t","u","t","o","r","i","a","l">>, <<"g","u","i","d","e">> >>
creativeKeywords == << <<"u","s","e">>, <<"c","r","e","a","t","e">>, <<"m","a","k","e">> >>
technicalKeywords == << <<"h","o","w">>, <<"w","o","r","k">>, <<"d","o","e","s">> >>
comparisonKeywords == << <<"b","e","s","t">>, <<"v","s">>, <<"d","i","f","f","e","r","e","n","c","e">> >>

\* questions.filter(q => keywords.some(k => q.toLowerCase().includes(k)))
bucket(questions, keywords) ==
  SelectSeq(questions, LAMBDA q : IncludesAny(ToLowerCase(q), keywords))

\* narrative.includes(q)
Contains(xs, x) == \E i \in 1..Len(xs) : xs[i] = x

\* "Fill remaining slots"
fillRemaining(narrative, questions) ==
  LET RECURSIVE F(_, _)
      F(i, acc) ==
        IF i > Len(questions) \/ Len(acc) >= 4 THEN acc
        ELSE IF Contains(acc, questions[i]) THEN F(i + 1, acc)
        ELSE F(i + 1, Append(acc, questions[i]))
  IN F(1, narrative)

\* the first question of a bucket, if it has one
firstOf(b) == IF Len(b) > 0 THEN <<b[1]>> ELSE <<>>

\* organizePaaIntoNarrative with the comparison question placed first
organizePaaComparisonFirst(questions) ==
  IF Len(questions) = 0 THEN <<>>
  ELSE Take(fillRemaining(firstOf(bucket(questions, comparisonKeywords))
                            \o firstOf(bucket(questions, beginnerKeywords))
                            \o firstOf(bucket(questions, creativeKeywords))
                            \o firstOf(bucket(questions, technicalKeywords)),
                          questions), 4)

organizePaaIntoNarrative(questions) ==
  IF Len(questions) = 0 THEN <<>>
  ELSE Take(fillRemaining(firstOf(bucket(questions, beginnerKeywords))
                            \o firstOf(bucket(questions, creativeKeywords))
                            \o firstOf(bucket(questions, technicalKeywords))
                            \o firstOf(bucket(questions, comparisonKeywords)),
                          questions), 4)

\* longest question list handed to organizePaaIntoNarrative
MaxQuestions == 4

\* questions: in one bucket each, in three buckets at once, in none
p_guide == <<"S","y","n","t","h"," ","g","u","i","d","e">>
p_tutorial == <<"M","i","x","i","n","g"," ","t","u","t","o","r","i","a","l">>
p_create == <<"C","a","n"," ","I"," ","c","r","e","a","t","e"," ","b","e","a","t","s","?">>
p_does == <<"D","o","e","s"," ","i","t"," ","w","o","r","k"," ","o","f","f","l","i","n","e","?">>
p_vs == <<"A","n","a","l","o","g"," ","v","s"," ","d","i","g","i","t","a","l">>
p_best == <<"B","e","s","t"," ","D","A","W"," ","i","n"," ","2","0","2","6">>
p_howto == <<"H","o","w"," ","t","o"," ","u","s","e"," ","a","n"," ","E","Q","?">>
p_none == <<"W","h","a","t"," ","i","s"," ","g","a","i","n","?">>
PaaPool == {p_guide, p_tutorial, p_create, p_does, p_vs, p_best, p_howto, p_none}

\* lists of distinct questions
DistinctLists(S, n) ==
  {l \in SeqUpTo(S, n) : \A i, j \in 1..Len(l) : i # j => l[i] # l[j]}

NoNarrative == [questions |-> <<>>, result |-> <<>>, runs |-> 0]

\* ------------------------------------------------------------------------
\* State
\* ------------------------------------------------------------------------

VARIABLES
  now,             \* the wall-clock date read by new Date()
  query,           \* the query of the getEnhancedSerpData call in progress
  regularData,     \* Promise.allSettled entry of getRegularSerpData
  aiModeData,      \* Promise.allSettled entry of getGoogleAIModeData
  aiOverviewData,  \* Promise.allSettled entry of getGoogleAIOverviewData
  serpResult,      \* what the getEnhancedSerpData call produced
  CRON_SECRET,     \* process.env.CRON_SECRET ("" when not set)
  scout,           \* the POST /api/scout-direct request being served
  flow,            \* per interaction token: the interaction and its background work
  userSessions,    \* the session map: token -> session
  wire,            \* responses returned and outbound requests issued, in order
  calls,           \* the generateDailyQueries calls made: when, and what returned
  narrative        \* a question list and what organizePaaIntoNarrative made of it

serpVars == <<now, query, regularData, aiModeData, aiOverviewData, serpResult>>
serverVars == <<CRON_SECRET, scout, flow, userSessions, wire>>
vars == <<now, query, regularData, aiModeData, aiOverviewData, serpResult,
          CRON_SECRET, scout, flow, userSessions, wire, calls, narrative>>

\* no call finished yet
NoResult == [done |-> FALSE, threw |-> FALSE, value |-> <<>>]
Finished(r) == [done |-> TRUE, threw |-> r.threw, value |-> r.value]

\* ------------------------------------------------------------------------
\* Server state: the scout request, the interaction workflows, the wire
\* ------------------------------------------------------------------------

\* interaction tokens (unique per interaction)
Tokens == {"t1", "t2"}

\* a request the process issues or a response it returns
Event(kind, detail, q) == [kind |-> kind, detail |-> detail, query |-> q]
\* a response returned to the caller of the HTTP handler
ResponseEvent(detail) == Event("response", detail, <<>>)
\* PATCH .../webhooks/{app}/{token}/messages/@original
EditEvent(content) == Event("edit", content, <<>>)
\* POST .../channels/{channel}/messages
PostEvent == Event("post", "report", <<>>)
\* POST to the generative-language endpoint
GenerateEvent == Event("generate", "outlines", <<>>)

\* the three requests getEnhancedSerpData starts before Promise.allSettled
SearchRequests(q, isNews) ==
  << Event("search", IF isNews THEN "google tbs=qdr:d" ELSE "google tbs=qdr:w", q),
     Event("search", "google_ai_mode", q),
     Event("search", "google_ai_overview", q) >>

Outbound(e) == e.kind # "response"

\* a getEnhancedSerpData call of a workflow: the three promises it waits on
Idle == [status |-> "idle", value |-> <<>>]
NoCall ==
  [query |-> <<>>, regularData |-> Idle, aiModeData |-> Idle, aiOverviewData |-> Idle]
NewCall(q) ==
  [query |-> q, regularData |-> Pending, aiModeData |-> Pending,
   aiOverviewData |-> Pending]
\* a join that resolves as soon as one of the three promises has settled
AnySettled(call) ==
  \/ call.regularData.status \in {"fulfilled", "rejected"}
  \/ call.aiModeData.status \in {"fulfilled", "rejected"}
  \/ call.aiOverviewData.status \in {"fulfilled", "rejected"}
AllSettled(call) ==
  /\ call.regularData.status \in {"fulfilled", "rejected"}
  /\ call.aiModeData.status \in {"fulfilled", "rejected"}
  /\ call.aiOverviewData.status \in {"fulfilled", "rejected"}
InFlight(call) ==
  Cardinality({f \in {"regularData", "aiModeData", "aiOverviewData"} :
                 call[f].status = "pending"})

\* { isNews: query.toLowerCase().includes('news') }
isNewsQuery(q) == Includes(ToLowerCase(q), <<"n","e","w","s">>)

\* dailyTopics.sort((a, b) => b.score - a.score): stable, descending score
sortByScore(topics) ==
  LET RECURSIVE Insert(_, _)
      Insert(sorted, t) ==
        IF sorted = <<>> THEN <<t>>
        ELSE IF Head(sorted).score >= t.score
             THEN <<Head(sorted)>> \o Insert(Tail(sorted), t)
             ELSE <<t>> \o sorted
      RECURSIVE F(_, _)
      F(i, sorted) ==
        IF i > Len(topics) THEN sorted ELSE F(i + 1, Insert(sorted, topics[i]))
  IN F(1, <<>>)

\* request.headers.get('Authorization')
Header(text) == [present |-> TRUE, text |-> text]
NoHeader == [present |-> FALSE, text |-> <<>>]

Bearer == <<"B","e","a","r","e","r"," ">>
secret == <<"s","3">>

\* Authorization headers a caller can send
AuthHeaders ==
  { NoHeader,
    Header(<<>>),
    Header(Bearer \o secret),
    Header(Bearer \o secret \o <<" ","x">>),
    Header(Bearer \o <<"s","4">>),
    Header(Bearer \o <<" ">> \o secret),
    Header(<<"B","e","a","r","e","r">>),
    Header(<<"b","e","a","r","e","r"," ">> \o secret),
    Header(<<"B","a","s","i","c"," ">> \o secret) }

\* process.env.CRON_SECRET: unset, or set
Secrets == { <<>>, secret }

\* the authorization check of handleDirectScout with the exact comparison
\* authHeader === 'Bearer ' + CRON_SECRET
checkAuthorizationExact(cronSecret, authHeader) ==
  IF cronSecret # <<>>
  THEN IF ~authHeader.present \/ authHeader.text = <<>>
          \/ ~StartsWith(authHeader.text, Bearer)
       THEN "401"
       ELSE IF authHeader.text # Bearer \o cronSecret THEN "403" ELSE "run"
  ELSE "run"

\* the authorization check at the top of handleDirectScout
checkAuthorization(cronSecret, authHeader) ==
  IF cronSecret # <<>>
  THEN IF ~authHeader.present \/ authHeader.text = <<>>
          \/ ~StartsWith(authHeader.text, Bearer)
       THEN "401"
       ELSE LET token == Split(authHeader.text, " ")[2] IN
            IF token # cronSecret THEN "403" ELSE "run"
  ELSE "run"

\* outcomes of a request to the chat platform
ChatOutcomes == {"ok", "not_ok", "network_error"}

\* sendToDiscordChannel that logs a failed post and returns
sendToDiscordChannelSwallows(outcome) == Returned(<<>>)

\* sendToDiscordChannel: a rejected fetch or a non-ok response is thrown
sendToDiscordChannel(outcome) ==
  IF outcome = "ok" THEN Returned(<<>>) ELSE Thrown

\* editOriginalResponse: every failure is logged, nothing is thrown
editOriginalResponse(outcome) == Returned(<<>>)

\* the response of POST /api/scout-direct
NoScoutResult ==
  [success |-> FALSE, topicsProcessed |-> 0, discordSent |-> FALSE, topics |-> <<>>]
NoResponse == [http |-> "none", status |-> "", error |-> "", result |-> NoScoutResult]
ErrorResponse(http, error) ==
  [http |-> http, status |-> "", error |-> error, result |-> NoScoutResult]

\* what runEnhancedDailyScout returns after the channel post
scoutResult(dailyTopics) ==
  [success |-> TRUE,
   topicsProcessed |-> Len(dailyTopics),
   discordSent |-> TRUE,
   topics |-> [k \in 1..Len(dailyTopics) |->
                 [query |-> dailyTopics[k].query, score |-> dailyTopics[k].score,
                  category |-> dailyTopics[k].category,
                  ai_enhanced |-> dailyTopics[k].ai_enhanced]]]

\* the end of handleDirectScout: runEnhancedDailyScout returned or threw
scoutResponse(sent, dailyTopics) ==
  IF sent.threw
  THEN [http |-> "500", status |-> "error", error |-> "Discord API error",
        result |-> NoScoutResult]
  ELSE [http |-> "200", status |-> "completed", error |-> "",
        result |-> scoutResult(dailyTopics)]

IdleScout ==
  [pc |-> "idle", authHeader |-> NoHeader, i |-> 0, call |-> NoCall,
   dailyTopics |-> <<>>, posted |-> "none", response |-> NoResponse]

\* inbound interaction payloads; valid = the body parses as JSON
Option(text) == [present |-> TRUE, value |-> text]
NoOption == [present |-> FALSE, value |-> <<>>]
Interaction(type, name, topic) ==
  [valid |-> TRUE, type |-> type, name |-> name, topic |-> topic]
InvalidBody == [valid |-> FALSE, type |-> 0, name |-> "", topic |-> NoOption]

Interactions ==
  { InvalidBody,
    Interaction(1, "", NoOption),
    Interaction(2, "blog", NoOption),
    Interaction(2, "outlines", NoOption),
    Interaction(2, "help", NoOption),
    Interaction(3, "blog", NoOption) } \cup
  { Interaction(2, "outlines", Option(t)) : t \in OutlineTopics }

\* data?.options?.find(opt => opt.name === 'topic')?.value || '...'
defaultTopic ==
  <<"l","a","t","e","s","t"," ","A","I"," ","m","u","s","i","c"," ",
    "p","r","o","d","u","c","t","i","o","n"," ","t","r","e","n","d","s"," ",
    "2","0","2","6">>
outlinesTopic(interaction) ==
  IF interaction.topic.present /\ interaction.topic.value # <<>>
  THEN interaction.topic.value ELSE defaultTopic

\* what handleDiscordInteraction does with a payload:
\* the response type it returns and the background command it starts
handleDiscordInteraction(interaction) ==
  IF ~interaction.valid THEN [type |-> "type 4", command |-> "none"]
  ELSE IF interaction.type = 1 THEN [type |-> "type 1", command |-> "none"]
  ELSE IF interaction.type = 2 /\ interaction.name = "blog"
       THEN [type |-> "type 5", command |-> "blog"]
  ELSE IF interaction.type = 2 /\ interaction.name = "outlines"
       THEN [type |-> "type 5", command |-> "outlines"]
  ELSE [type |-> "type 4", command |-> "none"]

\* the entry processBlogCommand pushes when getEnhancedSerpData throws
blogErrorTopic(q) ==
  [query |-> q, category |-> "ERROR", score |-> 40, link |-> noLinkFound,
   title |-> NoText, snippet |-> NoText, questions |-> <<>>,
   status |-> <<"ERROR">>, ai_enhanced |-> FALSE]

\* outcomes of the outline generation request
GenerateOutcomes == {"ok", "unparsable", "not_ok", "network_error"}

\* generateAIEnhancedOutlines: parsed outlines, or the fallback outlines
generateAIEnhancedOutlines(outcome) ==
  Returned(IF outcome = "ok" THEN "generated" ELSE "fallback")

\* the session map entry of a token
NoInstant == [dayOfWeek |-> 0, dayOfMonth |-> 0, month |-> 0, year |-> 0, hour |-> 0]
NoSession ==
  [exists |-> FALSE, step |-> "", topics |-> <<>>, createdAt |-> NoInstant,
   theme |-> ""]
Session(topics, createdAt, theme) ==
  [exists |-> TRUE, step |-> "topic_selection", topics |-> topics,
   createdAt |-> createdAt, theme |-> theme]

\* a map whose set() drops every other entry
mapSetEvicting(sessions, token, session) ==
  [t \in DOMAIN sessions |-> IF t = token THEN session ELSE NoSession]

\* a map with one slot: set() stores the session under every token
mapSetShared(sessions, token, session) ==
  [t \in DOMAIN sessions |-> session]

\* userSessions.set(token, session)
mapSet(sessions, token, session) == [sessions EXCEPT ![token] = session]

\* what generateDailyQueries returned to a command, before it is called
NoDaily ==
  [queries |-> <<>>, theme |-> "",
   dateInfo |-> [dayOfWeek |-> 0, dayOfMonth |-> 0, month |-> 0, year |-> 0]]

IdleFlow ==
  [pc |-> "idle", command |-> "none", topic |-> <<>>, daily |-> NoDaily, i |-> 0,
   call |-> NoCall, dailyTopics |-> <<>>, shown |-> <<>>, outlines |-> "none"]

\* ------------------------------------------------------------------------
\* One getEnhancedSerpData call
\* ------------------------------------------------------------------------

SerpInit ==
  /\ now \in Dates
  /\ query \in Range(generateDailyQueries(now).queries) \cup OutlineTopics
  /\ regularData = Pending
  /\ aiModeData = Pending
  /\ aiOverviewData = Pending
  /\ serpResult = NoResult
  /\ CRON_SECRET = <<>>
  /\ scout = IdleScout
  /\ flow = [t \in Tokens |-> IdleFlow]
  /\ userSessions = [t \in Tokens |-> NoSession]
  /\ wire = [w \in Tokens \cup {"scout"} |-> <<>>]
  /\ calls = <<>>
  /\ narrative = NoNarrative

\* getRegularSerpData settles
RegularSettles(fetched) ==
  /\ regularData.status = "pending"
  /\ regularData' = Settled(getRegularSerpData(query, now.year, fetched))
  /\ UNCHANGED <<now, query, aiModeData, aiOverviewData, serpResult, serverVars, calls, narrative>>

\* getGoogleAIModeData settles
AIModeSettles(fetched) ==
  /\ aiModeData.status = "pending"
  /\ aiModeData' = Settled(Returned(getGoogleAIModeData(fetched)))
  /\ UNCHANGED <<now, query, regularData, aiOverviewData, serpResult, serverVars, calls, narrative>>

\* getGoogleAIOverviewData settles
AIOverviewSettles(fetched) ==
  /\ aiOverviewData.status = "pending"
  /\ aiOverviewData' = Settled(Returned(getGoogleAIOverviewData(fetched)))
  /\ UNCHANGED <<now, query, regularData, aiModeData, serpResult, serverVars, calls, narrative>>

\* Promise.allSettled resolves and the rest of getEnhancedSerpData runs
EnhancedReturns ==
  /\ ~serpResult.done
  /\ regularData.status # "pending"
  /\ aiModeData.status # "pending"
  /\ aiOverviewData.status # "pending"
  /\ serpResult' =
       Finished(getEnhancedSerpData(query, regularData, aiModeData, aiOverviewData))
  /\ UNCHANGED <<now, query, regularData, aiModeData, aiOverviewData, serverVars, calls, narrative>>

SerpNext ==
  \/ \E f \in SerpFetches : RegularSettles(f)
  \/ \E f \in AiModeFetches : AIModeSettles(f)
  \/ \E f \in AiOverviewFetches : AIOverviewSettles(f)
  \/ EnhancedReturns

SpecSerp == SerpInit /\ [][SerpNext]_vars

\* getRegularSerpData alone, over every organic list up to MaxOrganic
RegularNext == \E f \in RegularFetches : RegularSettles(f)

SpecRegular == SerpInit /\ [][RegularNext]_vars

\* ------------------------------------------------------------------------
\* POST /api/scout-direct: handleDirectScout and runEnhancedDailyScout
\* ------------------------------------------------------------------------

\* fetch outcomes drawn while a workflow iterates over the day's queries
ScoutRegularFetches ==
  { Thrown,
    Returned(SearchResponse(Array(<<r_musictech>>),
                            <<NoArray, NoArray, NoArray>>, 5000001)) }
ScoutAiModeFetches ==
  { Thrown,
    Returned(AiPayload(FALSE, Array(<<AiResult(s1)>>),
                       Array(<<QuestionObject(a1)>>), NoOverview)) }
ScoutAiOverviewFetches ==
  { Returned(AiPayload(TRUE, NoArray, NoArray, NoOverview)) }

ServerInit ==
  /\ now \in Dates
  /\ query = <<>>
  /\ regularData = Pending
  /\ aiModeData = Pending
  /\ aiOverviewData = Pending
  /\ serpResult = NoResult
  /\ CRON_SECRET \in Secrets
  /\ scout = IdleScout
  /\ flow = [t \in Tokens |-> IdleFlow]
  /\ userSessions = [t \in Tokens |-> NoSession]
  /\ wire = [w \in Tokens \cup {"scout"} |-> <<>>]
  /\ calls = <<>>
  /\ narrative = NoNarrative

\* the loop of runEnhancedDailyScout reaches iteration i (1-based)
\* or, past the last query, sorts the topics and posts the report
scoutIteration(s, i, w) ==
  LET queries == generateDailyQueries(now).queries IN
  IF i <= Len(queries)
  THEN [scout |-> [s EXCEPT !.pc = "fetching", !.i = i, !.call = NewCall(queries[i])],
        wire |-> w \o SearchRequests(queries[i], isNewsQuery(queries[i]))]
  ELSE [scout |-> [s EXCEPT !.pc = "posting", !.i = i, !.call = NoCall,
                            !.dailyTopics = sortByScore(s.dailyTopics)],
        wire |-> Append(w, PostEvent)]

\* the request arrives: authorization, then the scout runs up to its
\* first await
HandleDirectScout(authHeader) ==
  /\ scout.pc = "idle"
  /\ LET verdict == checkAuthorization(CRON_SECRET, authHeader)
         s == [scout EXCEPT !.authHeader = authHeader]
     IN IF verdict = "401" \/ verdict = "403"
        THEN /\ scout' = [s EXCEPT !.pc = "done",
                            !.response = ErrorResponse(verdict,
                              IF verdict = "401" THEN "Unauthorized"
                              ELSE "Invalid token")]
             /\ wire' = [wire EXCEPT !["scout"] = Append(@, ResponseEvent(verdict))]
        ELSE LET r == scoutIteration(s, 1, wire["scout"]) IN
             /\ scout' = r.scout
             /\ wire' = [wire EXCEPT !["scout"] = r.wire]
  /\ UNCHANGED <<serpVars, calls, narrative, CRON_SECRET, flow, userSessions>>

ScoutRegularSettles(fetched) ==
  /\ scout.pc = "fetching"
  /\ scout.call.regularData.status = "pending"
  /\ scout' = [scout EXCEPT !.call.regularData =
                 Settled(getRegularSerpData(scout.call.query, now.year, fetched))]
  /\ UNCHANGED <<serpVars, calls, narrative, CRON_SECRET, flow, userSessions, wire>>

ScoutAIModeSettles(fetched) ==
  /\ scout.pc = "fetching"
  /\ scout.call.aiModeData.status = "pending"
  /\ scout' = [scout EXCEPT !.call.aiModeData =
                 Settled(Returned(getGoogleAIModeData(fetched)))]
  /\ UNCHANGED <<serpVars, calls, narrative, CRON_SECRET, flow, userSessions, wire>>

ScoutAIOverviewSettles(fetched) ==
  /\ scout.pc = "fetching"
  /\ scout.call.aiOverviewData.status = "pending"
  /\ scout' = [scout EXCEPT !.call.aiOverviewData =
                 Settled(Returned(getGoogleAIOverviewData(fetched)))]
  /\ UNCHANGED <<serpVars, calls, narrative, CRON_SECRET, flow, userSessions, wire>>

\* getEnhancedSerpData returns: the topic is pushed with its index and the
\* 1500 ms delay starts; if it threw, the loop goes on without a delay
ScoutQueryReturns ==
  /\ scout.pc = "fetching"
  /\ AllSettled(scout.call)
  /\ LET c == scout.call
         serpData == getEnhancedSerpData(c.query, c.regularData, c.aiModeData,
                                         c.aiOverviewData)
     IN IF serpData.threw
        THEN LET r == scoutIteration(scout, scout.i + 1, wire["scout"]) IN
             /\ scout' = r.scout
             /\ wire' = [wire EXCEPT !["scout"] = r.wire]
        ELSE /\ scout' = [scout EXCEPT
                            !.pc = "delay", !.call = NoCall,
                            !.dailyTopics =
                              Append(@, [index |-> scout.i - 1] @@ serpData.value)]
             /\ UNCHANGED wire
  /\ UNCHANGED <<serpVars, calls, narrative, CRON_SECRET, flow, userSessions>>

\* the rate-limiting timer fires
ScoutDelayElapses ==
  /\ scout.pc = "delay"
  /\ LET r == scoutIteration(scout, scout.i + 1, wire["scout"]) IN
     /\ scout' = r.scout
     /\ wire' = [wire EXCEPT !["scout"] = r.wire]
  /\ UNCHANGED <<serpVars, calls, narrative, CRON_SECRET, flow, userSessions>>

\* the channel post settles and handleDirectScout answers
ScoutPostSettles(outcome) ==
  /\ scout.pc = "posting"
  /\ LET sent == sendToDiscordChannel(outcome)
         response == scoutResponse(sent, scout.dailyTopics)
     IN /\ scout' = [scout EXCEPT !.pc = "done", !.posted = outcome,
                                  !.response = response]
        /\ wire' = [wire EXCEPT !["scout"] = Append(@, ResponseEvent(response.http))]
  /\ UNCHANGED <<serpVars, calls, narrative, CRON_SECRET, flow, userSessions>>

ScoutNext ==
  \/ \E h \in AuthHeaders : HandleDirectScout(h)
  \/ \E f \in ScoutRegularFetches : ScoutRegularSettles(f)
  \/ \E f \in ScoutAiModeFetches : ScoutAIModeSettles(f)
  \/ \E f \in ScoutAiOverviewFetches : ScoutAIOverviewSettles(f)
  \/ ScoutQueryReturns
  \/ ScoutDelayElapses
  \/ \E o \in ChatOutcomes : ScoutPostSettles(o)

SpecScout == ServerInit /\ [][ScoutNext]_vars

\* ------------------------------------------------------------------------
\* POST /api/interactions: handleDiscordInteraction and the two commands
\* ------------------------------------------------------------------------

BotRegularFetches == ScoutRegularFetches
BotAiModeFetches == { Thrown }
BotAiOverviewFetches == ScoutAiOverviewFetches

\* the interaction arrives.  For a command the Response object is created,
\* then process...Command(token, ...) is called and runs synchronously up
\* to the fetch inside its first editOriginalResponse, and only then does
\* the handler return the response.
HandleInteraction(t, interaction) ==
  /\ flow[t].pc = "idle"
  /\ LET h == handleDiscordInteraction(interaction) IN
     IF h.command = "none"
     THEN /\ flow' = [flow EXCEPT ![t].pc = "done"]
          /\ wire' = [wire EXCEPT ![t] = Append(@, ResponseEvent(h.type))]
     ELSE /\ flow' = [flow EXCEPT
                        ![t].pc = "loading", ![t].command = h.command,
                        ![t].topic = IF h.command = "outlines"
                                     THEN outlinesTopic(interaction) ELSE <<>>]
          /\ wire' = [wire EXCEPT ![t] =
                        @ \o <<EditEvent("loading"), ResponseEvent(h.type)>>]
  /\ UNCHANGED <<serpVars, calls, narrative, CRON_SECRET, scout, userSessions>>

\* blogIteration that stores a copy of the topics taken before the sort
blogIterationStoresCopy(f, i, w) ==
  LET daily == f.daily IN
  IF i <= Len(daily.queries)
  THEN [flow |-> [f EXCEPT !.pc = "fetching", !.i = i,
                          !.call = NewCall(daily.queries[i])],
        session |-> NoSession,
        wire |-> w \o SearchRequests(daily.queries[i], isNewsQuery(daily.queries[i]))]
  ELSE LET sorted == sortByScore(f.dailyTopics) IN
       [flow |-> [f EXCEPT !.pc = "final", !.i = i, !.call = NoCall,
                          !.dailyTopics = sorted, !.shown = sorted],
        session |-> Session(f.dailyTopics, now, daily.theme),
        wire |-> Append(w, EditEvent("topics"))]

\* blogIteration that ends the command without sending the topic list
blogIterationSilent(f, i, w) ==
  LET daily == f.daily IN
  IF i <= Len(daily.queries)
  THEN [flow |-> [f EXCEPT !.pc = "fetching", !.i = i,
                          !.call = NewCall(daily.queries[i])],
        session |-> NoSession,
        wire |-> w \o SearchRequests(daily.queries[i], isNewsQuery(daily.queries[i]))]
  ELSE LET sorted == sortByScore(f.dailyTopics) IN
       [flow |-> [f EXCEPT !.pc = "done", !.i = i, !.call = NoCall,
                          !.dailyTopics = sorted, !.shown = sorted],
        session |-> Session(sorted, now, daily.theme),
        wire |-> w]

\* the loop of processBlogCommand reaches iteration i (1-based) or, past
\* the last query, stores the session, sorts dailyTopics in place (the
\* session holds the same array) and sends the topic list
blogIteration(f, i, w) ==
  LET daily == f.daily IN
  IF i <= Len(daily.queries)
  THEN [flow |-> [f EXCEPT !.pc = "fetching", !.i = i,
                          !.call = NewCall(daily.queries[i])],
        session |-> NoSession,
        wire |-> w \o SearchRequests(daily.queries[i], isNewsQuery(daily.queries[i]))]
  ELSE LET sorted == sortByScore(f.dailyTopics) IN
       [flow |-> [f EXCEPT !.pc = "final", !.i = i, !.call = NoCall,
                          !.dailyTopics = sorted, !.shown = sorted],
        session |-> Session(sorted, now, daily.theme),
        wire |-> Append(w, EditEvent("topics"))]

\* the "loading" edit settles (its failure is swallowed); /blog calls
\* generateDailyQueries, and the command starts its first
\* getEnhancedSerpData call
LoadingEditSettles(t, outcome) ==
  /\ flow[t].pc = "loading"
  /\ ~editOriginalResponse(outcome).threw
  /\ IF flow[t].command = "blog"
     THEN LET started == [flow[t] EXCEPT !.daily = generateDailyQueries(now)]
              r == blogIteration(started, 1, wire[t])
          IN
          /\ flow' = [flow EXCEPT ![t] = r.flow]
          /\ wire' = [wire EXCEPT ![t] = r.wire]
     ELSE LET q == Take(flow[t].topic, 100) IN
          /\ flow' = [flow EXCEPT ![t].pc = "fetching", ![t].i = 1,
                                  ![t].call = NewCall(q)]
          /\ wire' = [wire EXCEPT ![t] =
                        @ \o SearchRequests(q, isNewsQuery(flow[t].topic))]
  /\ UNCHANGED <<serpVars, calls, narrative, CRON_SECRET, scout, userSessions>>

FlowRegularSettles(t, fetched) ==
  /\ flow[t].pc = "fetching"
  /\ flow[t].call.regularData.status = "pending"
  /\ flow' = [flow EXCEPT ![t].call.regularData =
                Settled(getRegularSerpData(flow[t].call.query, now.year, fetched))]
  /\ UNCHANGED <<serpVars, calls, narrative, CRON_SECRET, scout, userSessions, wire>>

FlowAIModeSettles(t, fetched) ==
  /\ flow[t].pc = "fetching"
  /\ flow[t].call.aiModeData.status = "pending"
  /\ flow' = [flow EXCEPT ![t].call.aiModeData =
                Settled(Returned(getGoogleAIModeData(fetched)))]
  /\ UNCHANGED <<serpVars, calls, narrative, CRON_SECRET, scout, userSessions, wire>>

FlowAIOverviewSettles(t, fetched) ==
  /\ flow[t].pc = "fetching"
  /\ flow[t].call.aiOverviewData.status = "pending"
  /\ flow' = [flow EXCEPT ![t].call.aiOverviewData =
                Settled(Returned(getGoogleAIOverviewData(fetched)))]
  /\ UNCHANGED <<serpVars, calls, narrative, CRON_SECRET, scout, userSessions, wire>>

\* getEnhancedSerpData returns inside processBlogCommand: the topic (or
\* the ERROR entry of the inner catch) is pushed and the loop goes on
BlogQueryReturns(t) ==
  /\ flow[t].pc = "fetching"
  /\ flow[t].command = "blog"
  /\ AllSettled(flow[t].call)
  /\ LET c == flow[t].call
         serpData == getEnhancedSerpData(c.query, c.regularData, c.aiModeData,
                                         c.aiOverviewData)
         pushed == [flow[t] EXCEPT !.dailyTopics =
                      Append(@, IF serpData.threw THEN blogErrorTopic(c.query)
                                ELSE serpData.value)]
         r == blogIteration(pushed, flow[t].i + 1, wire[t])
     IN /\ flow' = [flow EXCEPT ![t] = r.flow]
        /\ wire' = [wire EXCEPT ![t] = r.wire]
        /\ userSessions' = IF r.session.exists
                           THEN mapSet(userSessions, t, r.session)
                           ELSE userSessions
  /\ UNCHANGED <<serpVars, calls, narrative, CRON_SECRET, scout>>

\* getEnhancedSerpData returns inside processOutlinesCommand and
\* generateAIEnhancedOutlines sends its request; if the call threw, the
\* command rejects and the handler's catch sends the error edit
OutlinesQueryReturns(t) ==
  /\ flow[t].pc = "fetching"
  /\ flow[t].command = "outlines"
  /\ AllSettled(flow[t].call)
  /\ LET c == flow[t].call
         serpData == getEnhancedSerpData(c.query, c.regularData, c.aiModeData,
                                         c.aiOverviewData)
     IN IF serpData.threw
        THEN /\ flow' = [flow EXCEPT ![t].pc = "final", ![t].call = NoCall]
             /\ wire' = [wire EXCEPT ![t] = Append(@, EditEvent("error"))]
        ELSE /\ flow' = [flow EXCEPT ![t].pc = "generating", ![t].call = NoCall,
                                     ![t].dailyTopics = <<serpData.value>>]
             /\ wire' = [wire EXCEPT ![t] = Append(@, GenerateEvent)]
  /\ UNCHANGED <<serpVars, calls, narrative, CRON_SECRET, scout, userSessions>>

\* the outline generation settles and the outlines message is sent
OutlinesGenerated(t, outcome) ==
  /\ flow[t].pc = "generating"
  /\ LET outlines == generateAIEnhancedOutlines(outcome) IN
     /\ ~outlines.threw
     /\ flow' = [flow EXCEPT ![t].pc = "final", ![t].outlines = outlines.value]
     /\ wire' = [wire EXCEPT ![t] = Append(@, EditEvent("outlines"))]
  /\ UNCHANGED <<serpVars, calls, narrative, CRON_SECRET, scout, userSessions>>

\* the last edit settles; the background promise resolves
FinalEditSettles(t, outcome) ==
  /\ flow[t].pc = "final"
  /\ ~editOriginalResponse(outcome).threw
  /\ flow' = [flow EXCEPT ![t].pc = "done"]
  /\ UNCHANGED <<serpVars, calls, narrative, CRON_SECRET, scout, userSessions, wire>>

BotNext ==
  \/ \E t \in Tokens, x \in Interactions : HandleInteraction(t, x)
  \/ \E t \in Tokens, o \in ChatOutcomes : LoadingEditSettles(t, o)
  \/ \E t \in Tokens, f \in BotRegularFetches : FlowRegularSettles(t, f)
  \/ \E t \in Tokens, f \in BotAiModeFetches : FlowAIModeSettles(t, f)
  \/ \E t \in Tokens, f \in BotAiOverviewFetches : FlowAIOverviewSettles(t, f)
  \/ \E t \in Tokens : BlogQueryReturns(t)
  \/ \E t \in Tokens : OutlinesQueryReturns(t)
  \/ \E t \in Tokens, o \in GenerateOutcomes : OutlinesGenerated(t, o)
  \/ \E t \in Tokens, o \in ChatOutcomes : FinalEditSettles(t, o)

\* interactions are served on one date, with no cron secret configured
BotInit ==
  /\ ServerInit
  /\ now.dayOfWeek = 1
  /\ CRON_SECRET = <<>>

SpecBot == BotInit /\ [][BotNext]_vars

\* the commands a token sends where progress is checked: t2 sends
\* /outlines only
LiveInteractions(t) ==
  IF t = "t1" THEN Interactions
  ELSE { Interaction(2, "outlines", Option(x)) : x \in OutlineTopics }

\* one step of the background workflow of token t: a call it waits on
\* settles, or the continuation of a settled await runs
FlowStep(t) ==
  \/ \E o \in ChatOutcomes : LoadingEditSettles(t, o)
  \/ \E f \in BotRegularFetches : FlowRegularSettles(t, f)
  \/ \E f \in BotAiModeFetches : FlowAIModeSettles(t, f)
  \/ \E f \in BotAiOverviewFetches : FlowAIOverviewSettles(t, f)
  \/ BlogQueryReturns(t)
  \/ OutlinesQueryReturns(t)
  \/ \E o \in GenerateOutcomes : OutlinesGenerated(t, o)
  \/ \E o \in ChatOutcomes : FinalEditSettles(t, o)

BotLiveNext ==
  \/ \E t \in Tokens : \E x \in LiveInteractions(t) : HandleInteraction(t, x)
  \/ \E t \in Tokens : FlowStep(t)

\* the workflow of token t waits on an outbound call or on the continuation
\* of a settled one: exactly then a FlowStep(t) is possible
Running(t) == flow[t].pc \in {"loading", "fetching", "generating", "final"}

\* every outbound call of a command eventually settles, and the
\* continuation of a settled await eventually runs: weak fairness of
\* FlowStep(t), with its enabling condition Running(t) written out
BotFairness ==
  \A t \in Tokens :
    []<>(~Running(t)) \/ []<><<FlowStep(t)>>_vars

SpecBotLive == BotInit /\ [][BotLiveNext]_vars /\ BotFairness

\* ------------------------------------------------------------------------
\* getEnhancedSerpData over every query of the four pools
\* ------------------------------------------------------------------------

\* every query generateDailyQueries can pick in the month of a date
poolQueries(date) ==
  Range(aiToolsQueries(date.month, date.year))
    \cup Range(gearQueries(date.month, date.year))
    \cup Range(newsQueries(date.month, date.year))
    \cup Range(trendingQueries(date.month, date.year))

\* topics typed into /outlines that fall into several keyword groups
MixedTopics ==
  { <<"A","I"," ","n","e","w","s">>,
    <<"g","e","a","r"," ","n","e","w","s">>,
    <<"A","I"," ","g","e","a","r"," ","n","e","w","s">>,
    <<"H","a","r","d","w","a","r","e"," ","T","r","e","n","d","s">>,
    <<"N","E","W","S"," ","a","b","o","u","t"," ","t","r","a","i","n","i","n","g">>,
    <<"r","e","c","o","r","d","i","n","g"," ","e","q","u","i","p","m","e","n","t">> }

QueriesInit ==
  /\ now \in Dates
  /\ query \in poolQueries(now) \cup MixedTopics
  /\ regularData = Pending
  /\ aiModeData = Pending
  /\ aiOverviewData = Pending
  /\ serpResult = NoResult
  /\ CRON_SECRET = <<>>
  /\ scout = IdleScout
  /\ flow = [t \in Tokens |-> IdleFlow]
  /\ userSessions = [t \in Tokens |-> NoSession]
  /\ wire = [w \in Tokens \cup {"scout"} |-> <<>>]
  /\ calls = <<>>
  /\ narrative = NoNarrative

QueriesNext ==
  \/ \E f \in ScoutRegularFetches : RegularSettles(f)
  \/ \E f \in ScoutAiModeFetches : AIModeSettles(f)
  \/ \E f \in ScoutAiOverviewFetches : AIOverviewSettles(f)
  \/ EnhancedReturns

SpecQueries == QueriesInit /\ [][QueriesNext]_vars

\* ------------------------------------------------------------------------
\* generateDailyQueries called at several moments
\* ------------------------------------------------------------------------

\* calls of generateDailyQueries followed
MaxCalls == 2
\* the clock stops advancing on this day of the month
LastDay == 8

\* twelve hours later on the system clock
twelveHoursLater(t) ==
  IF t.hour < 12 THEN [t EXCEPT !.hour = t.hour + 12]
  ELSE [t EXCEPT !.hour = t.hour - 12,
                 !.dayOfMonth = t.dayOfMonth + 1,
                 !.dayOfWeek = (t.dayOfWeek + 1) % 7]

\* a caller runs generateDailyQueries(), which reads new Date()
CallGenerateDailyQueries ==
  /\ Len(calls) < MaxCalls
  /\ calls' = Append(calls, [at |-> now, result |-> generateDailyQueries(now)])
  /\ UNCHANGED <<serpVars, serverVars, narrative>>

\* time passes between calls
TimePasses ==
  /\ now.dayOfMonth < LastDay
  /\ now' = twelveHoursLater(now)
  /\ UNCHANGED <<query, regularData, aiModeData, aiOverviewData, serpResult,
                 serverVars, calls, narrative>>

DailyNext == CallGenerateDailyQueries \/ TimePasses

SpecDaily == ServerInit /\ [][DailyNext]_vars

\* ------------------------------------------------------------------------
\* /blog commands while time passes
\* ------------------------------------------------------------------------

SessionRegularFetches ==
  { Returned(SearchResponse(Array(<<r_musictech>>),
                            <<NoArray, NoArray, NoArray>>, 5000001)) }

SessionsNext ==
  \/ \E t \in Tokens : HandleInteraction(t, Interaction(2, "blog", NoOption))
  \/ \E t \in Tokens, o \in ChatOutcomes : LoadingEditSettles(t, o)
  \/ \E t \in Tokens, f \in SessionRegularFetches : FlowRegularSettles(t, f)
  \/ \E t \in Tokens, f \in BotAiModeFetches : FlowAIModeSettles(t, f)
  \/ \E t \in Tokens, f \in BotAiOverviewFetches : FlowAIOverviewSettles(t, f)
  \/ \E t \in Tokens : BlogQueryReturns(t)
  \/ \E t \in Tokens, o \in ChatOutcomes : FinalEditSettles(t, o)
  \/ TimePasses

SpecSessions == BotInit /\ [][SessionsNext]_vars

\* ------------------------------------------------------------------------
\* SpecWorkflows: the scout job and a /blog command running side by side
\* ------------------------------------------------------------------------

WorkflowsNext ==
  \/ HandleDirectScout(NoHeader)
  \/ \E f \in ScoutRegularFetches : ScoutRegularSettles(f)
  \/ \E f \in BotAiModeFetches : ScoutAIModeSettles(f)
  \/ \E f \in ScoutAiOverviewFetches : ScoutAIOverviewSettles(f)
  \/ ScoutQueryReturns
  \/ ScoutDelayElapses
  \/ \E o \in ChatOutcomes : ScoutPostSettles(o)
  \/ HandleInteraction("t1", Interaction(2, "blog", NoOption))
  \/ \E o \in ChatOutcomes : LoadingEditSettles("t1", o)
  \/ \E f \in SessionRegularFetches : FlowRegularSettles("t1", f)
  \/ \E f \in BotAiModeFetches : FlowAIModeSettles("t1", f)
  \/ \E f \in BotAiOverviewFetches : FlowAIOverviewSettles("t1", f)
  \/ BlogQueryReturns("t1")
  \/ \E o \in ChatOutcomes : FinalEditSettles("t1", o)

SpecWorkflows == BotInit /\ [][WorkflowsNext]_vars

\* ------------------------------------------------------------------------
\* organizePaaIntoNarrative applied to a question list, and to its result
\* ------------------------------------------------------------------------

NarrativeInit ==
  /\ ServerInit
  /\ now.dayOfWeek = 1
  /\ CRON_SECRET = <<>>

\* a caller passes a list of questions
QuestionsArrive(questions) ==
  /\ narrative.runs = 0
  /\ narrative.questions = <<>>
  /\ questions # <<>>
  /\ narrative' = [narrative EXCEPT !.questions = questions]
  /\ UNCHANGED <<serpVars, serverVars, calls>>

Organize ==
  /\ narrative.runs = 0
  /\ narrative' = [narrative EXCEPT
                     !.result = organizePaaIntoNarrative(narrative.questions),
                     !.runs = 1]
  /\ UNCHANGED <<serpVars, serverVars, calls>>

OrganizeAgain ==
  /\ narrative.runs = 1
  /\ narrative' = [narrative EXCEPT
                     !.result = organizePaaIntoNarrative(narrative.result),
                     !.runs = 2]
  /\ UNCHANGED <<serpVars, serverVars, calls>>

NarrativeNext ==
  \/ \E qs \in DistinctLists(PaaPool, MaxQuestions) : QuestionsArrive(qs)
  \/ Organize
  \/ OrganizeAgain

SpecNarrative == NarrativeInit /\ [][NarrativeNext]_vars

\* ------------------------------------------------------------------------
\* SpecPrimary: the choice of the primary result by getRegularSerpData
\* ------------------------------------------------------------------------

\* search responses that differ in their organic results only
PrimaryFetches ==
  RegularFetchesOver(SeqUpTo(OrganicPool, MaxOrganic),
                     { <<NoArray, NoArray, NoArray>> }, {0, 1000001})

PrimaryNext == \E f \in PrimaryFetches : RegularSettles(f)

SpecPrimary == SerpInit /\ [][PrimaryNext]_vars

\* ------------------------------------------------------------------------
\* SpecScenario: getEnhancedSerpData on one premium result among excluded
\* ones, with no data from either AI surface
\* ------------------------------------------------------------------------

\* 'AI mastering tools reviews ${year}', the fourth AI-tools query
masteringQuery(date) == aiToolsQueries(date.month, date.year)[4]

\* search responses with two results from excluded domains and one from
\* musictech.com that has a date, a title of 21-99 characters and a snippet
\* of more than 100; fewer than 1M total results
ScenarioFetches ==
  LET musictech ==
        { OrganicResult(Url("https://musictech.com/review", host_musictech),
                        Text("mt-title", t), Text("mt-snippet", n), TRUE, NoArray) :
            t \in {21, 45, 99}, n \in {101, 150} }
      organic ==
        UNION { { <<r_youtube, r_facebook, m>>, <<r_facebook, m, r_youtube>>,
                  <<m, r_youtube, r_facebook>>, <<r_youtube, r_youtube, m>> } :
                m \in musictech }
  IN { Returned(SearchResponse(Array(o), f, t)) :
         o \in organic,
         f \in { <<NoArray, NoArray, NoArray>>,
                 <<Array(<<QuestionObject(q1), QuestionString(q2)>>), NoArray, NoArray>>,
                 <<Array(<<QuestionObject(q1), QuestionString(q2), QuestionObject(q3)>>),
                   NoArray, NoArray>> },
         t \in {0, 999999} }

\* an AI lookup that yields no data: a failed request, or an error field
NoAiDataFetches ==
  { Thrown, Returned(AiPayload(TRUE, NoArray, NoArray, NoOverview)) }

ScenarioInit ==
  /\ now \in Dates
  /\ query = masteringQuery(now)
  /\ regularData = Pending
  /\ aiModeData = Pending
  /\ aiOverviewData = Pending
  /\ serpResult = NoResult
  /\ CRON_SECRET = <<>>
  /\ scout = IdleScout
  /\ flow = [t \in Tokens |-> IdleFlow]
  /\ userSessions = [t \in Tokens |-> NoSession]
  /\ wire = [w \in Tokens \cup {"scout"} |-> <<>>]
  /\ calls = <<>>
  /\ narrative = NoNarrative

ScenarioNext ==
  \/ \E f \in ScenarioFetches : RegularSettles(f)
  \/ \E f \in NoAiDataFetches : AIModeSettles(f)
  \/ \E f \in NoAiDataFetches : AIOverviewSettles(f)
  \/ EnhancedReturns

SpecScenario == ScenarioInit /\ [][ScenarioNext]_vars

\* ------------------------------------------------------------------------
\* Properties of getEnhancedSerpData (SpecSerp)
\* ------------------------------------------------------------------------

\* the call has returned a report
Reported == serpResult.done /\ ~serpResult.threw
report == serpResult.value

aiModeValue == IF aiModeData.status = "fulfilled" THEN aiModeData.value ELSE NullData
aiOverviewValue ==
  IF aiOverviewData.status = "fulfilled" THEN aiOverviewData.value ELSE NullData

HasNullItem(array, n) ==
  \E i \in 1..Min(n, Len(array.items)) : array.items[i].type = "null"

\* an AI payload on which a step of the aggregation throws
AggregationThrows ==
  \/ /\ ~aiModeValue.isNull
     /\ aiModeValue.organic_results.defined
     /\ \/ HasNullItem(aiModeValue.organic_results, 3)
        \/ /\ aiModeValue.related_questions.defined
           /\ HasNullItem(aiModeValue.related_questions, 5)
  \/ /\ ~aiOverviewValue.isNull
     /\ aiOverviewValue.ai_overview.defined
     /\ \/ ~aiOverviewValue.ai_overview.textIsString
        \/ /\ aiOverviewValue.ai_overview.questions.defined
           /\ HasNullItem(aiOverviewValue.ai_overview.questions, 5)

\* C1: every report returned by getEnhancedSerpData, on the normal path and
\* on the fallback path, has a score between 40 and 100.
C1_ScoreInRange == Reported => report.score \in 40..100

\* a normal-path report whose bonuses exceed 100 before the clamp
C1_Witness ==
  /\ Reported
  /\ report.category # "ERROR"
  /\ report.score = 100
  /\ regularData.value.score = 95
  /\ report.ai_enhanced

\* C2: getEnhancedSerpData never raises; when the regular search fails or a
\* step of the aggregation throws, the caller gets the fallback report:
\* category ERROR, score 40, exactly 3 questions, ai_enhanced false, every
\* field filled.
C2_NeverRaises ==
  serpResult.done =>
    /\ ~serpResult.threw
    /\ (regularData.status = "rejected" \/ AggregationThrows) =>
         /\ report.category = "ERROR"
         /\ report.score = 40
         /\ Len(report.questions) = 3
         /\ report.ai_enhanced = FALSE
         /\ report.query = query
         /\ report.link.text # ""
         /\ report.title.len > 0
         /\ report.snippet.len > 0
         /\ Len(report.source) > 0
         /\ report.ai_insights = <<>>

\* the regular search succeeded and the aggregation threw on an AI payload
C2_Witness ==
  /\ Reported
  /\ regularData.status = "fulfilled"
  /\ AggregationThrows
  /\ report.category = "ERROR"

\* C4: the questions of every returned report number between 1 and 7, also
\* when no source supplied a question.
C4_QuestionsBounded == Reported => Len(report.questions) \in 1..7

\* a normal-path report where neither the search nor the AI surfaces, both
\* of which answered, supplied a question: the synthesized ones are all
C4_Witness ==
  /\ Reported
  /\ report.category # "ERROR"
  /\ ~aiModeValue.isNull
  /\ ~aiOverviewValue.isNull
  /\ report.questions = regularFallbacks(query, now.year)

\* C5: when the regular search succeeds, whatever the two AI lookups did,
\* the report is a non-ERROR report built from the base data, and a lookup
\* that failed adds no bonus, no question and no insight.
C5_AiFailuresTolerated ==
  (Reported /\ regularData.status = "fulfilled") =>
    /\ report.category # "ERROR"
    /\ report.link = regularData.value.link
    /\ report.source = regularData.value.source
    /\ (aiModeValue.isNull /\ aiOverviewValue.isNull) =>
         /\ report.score = regularData.value.score
         /\ report.questions = regularData.value.questions
         /\ report.ai_insights = <<>>
         /\ ~report.ai_enhanced

NormalStatuses ==
  { <<"STEADY">>, <<"TRENDING">>, <<"VIRAL">>,
    aiMarker \o <<"STEADY">>, aiMarker \o <<"TRENDING">>, aiMarker \o <<"VIRAL">> }

Categories == {"AI TOOLS", "GEAR", "NEWS", "PRODUCTION", "OTHER", "ERROR"}

\* C10: the category of every report is one of AI TOOLS, GEAR, NEWS,
\* PRODUCTION, OTHER, ERROR; a query matching no keyword group gets the
\* base fetch's category or OTHER.
C10_CategoryClosed == Reported => report.category \in Categories

\* ------------------------------------------------------------------------
\* Properties of getRegularSerpData (SpecRegular)
\* ------------------------------------------------------------------------

\* C8: the primary result returned by getRegularSerpData never comes from a
\* host that contains an excluded domain.
C8_ExcludedNeverPrimary ==
  regularData.status = "fulfilled" =>
    /\ ~IncludesAny(regularData.value.source, excludedDomains)
    /\ ~IncludesAny(regularData.value.link.host, excludedDomains)

\* ------------------------------------------------------------------------
\* Properties of POST /api/scout-direct (SpecScout)
\* ------------------------------------------------------------------------

scoutWire == wire["scout"]
\* the scout issued a search or chat request
ScoutIssuedRequest == \E k \in 1..Len(scoutWire) : Outbound(scoutWire[k])
ChannelPosts == {k \in 1..Len(scoutWire) : scoutWire[k].kind = "post"}

\* C6: when the channel post fails (network error or non-ok response) it
\* is not sent again and the endpoint answers HTTP 500 with status error;
\* the endpoint answers completed with discordSent true only when the post
\* succeeded.
C6_PostFailureReported ==
  /\ Cardinality(ChannelPosts) <= 1
  /\ scout.posted \in {"not_ok", "network_error"} =>
       /\ scout.response.http = "500"
       /\ scout.response.status = "error"
       /\ ~scout.response.result.discordSent
  /\ (scout.response.status = "completed" \/ scout.response.result.discordSent) =>
       /\ scout.posted = "ok"
       /\ scout.response.http = "200"
       /\ Cardinality(ChannelPosts) = 1

\* a run whose four topics were fetched and whose channel post was refused
C6_Witness ==
  /\ scout.pc = "done"
  /\ scout.posted = "not_ok"
  /\ Len(scout.dailyTopics) = 4
  /\ scout.response.http = "500"

\* the text between the 'Bearer ' prefix and the next space (or the end)
credential(text) ==
  LET rest == SubSeq(text, Len(Bearer) + 1, Len(text))
      spaces == {k \in 1..Len(rest) : rest[k] = " "}
  IN IF spaces = {} THEN rest
     ELSE SubSeq(rest, 1, (CHOOSE k \in spaces : \A j \in spaces : k <= j) - 1)

isBearer(h) == h.present /\ StartsWith(h.text, Bearer)

\* C7 as stated: with a secret configured the scout runs, and requests go
\* out, only if the Authorization header is 'Bearer ' followed by exactly
\* the secret; a missing or non-Bearer header gets 401 and a wrong token
\* 403, without any outbound request.
C7_ExactBearerOnly ==
  (CRON_SECRET # <<>> /\ scout.pc # "idle") =>
    /\ ScoutIssuedRequest => scout.authHeader = Header(Bearer \o CRON_SECRET)
    /\ ~isBearer(scout.authHeader) =>
         scout.response.http = "401" /\ ~ScoutIssuedRequest
    /\ (isBearer(scout.authHeader)
          /\ scout.authHeader # Header(Bearer \o CRON_SECRET)) =>
         scout.response.http = "403" /\ ~ScoutIssuedRequest

\* C7: with a secret configured the scout runs, and requests go out, exactly
\* when the header starts with 'Bearer ' and the text between that prefix
\* and the next space is the secret (what follows a further space is
\* ignored); a missing or non-Bearer header gets 401 and any other token
\* 403, without any outbound request.
C7_BearerCredentialOnly ==
  (CRON_SECRET # <<>> /\ scout.pc # "idle") =>
    LET h == scout.authHeader
        accepted == isBearer(h) /\ credential(h.text) = CRON_SECRET
    IN /\ ScoutIssuedRequest <=> accepted
       /\ accepted => scout.response.http \notin {"401", "403"}
       /\ ~isBearer(h) => scout.response.http = "401"
       /\ (isBearer(h) /\ ~accepted) => scout.response.http = "403"

\* a header with text after the secret was accepted and the scout ran
C7_Witness ==
  /\ CRON_SECRET # <<>>
  /\ scout.authHeader = Header(Bearer \o CRON_SECRET \o <<" ", "x">>)
  /\ ScoutIssuedRequest
  /\ scout.pc = "done"

\* ------------------------------------------------------------------------
\* Properties of POST /api/interactions (SpecBot)
\* ------------------------------------------------------------------------

\* C3: for a /blog or /outlines interaction the type 5 acknowledgement is
\* returned before any edit-original-response request for the token is
\* issued; a PING is answered with type 1 and starts no background work.
C3_AckBeforeEdit ==
  \A t \in Tokens :
    /\ \A k \in 1..Len(wire[t]) :
         wire[t][k].kind = "edit" =>
           \E j \in 1..(k - 1) : wire[t][j] = ResponseEvent("type 5")
    /\ (Len(wire[t]) > 0 /\ wire[t][1] = ResponseEvent("type 1")) =>
         /\ Len(wire[t]) = 1
         /\ flow[t].pc = "done"
         /\ flow[t].command = "none"

\* ------------------------------------------------------------------------
\* Properties of the category chain (SpecQueries)
\* ------------------------------------------------------------------------

queryHas(keywords) == IncludesAny(ToLowerCase(query), keywords)

\* C11: on every report the category chain produced (every report but the
\* ERROR fallback) the category is that of the first matching keyword
\* group in the order AI TOOLS, GEAR, NEWS, PRODUCTION; in particular a
\* query containing 'ai' and 'news', in any letter case, is AI TOOLS.
C11_CategoryPriority ==
  (Reported /\ report.category # "ERROR") =>
    /\ (Includes(ToLowerCase(query), <<"a","i">>)
          /\ Includes(ToLowerCase(query), <<"n","e","w","s">>))
         => report.category = "AI TOOLS"
    /\ queryHas(aiKeywords) => report.category = "AI TOOLS"
    /\ (~queryHas(aiKeywords) /\ queryHas(gearKeywords))
         => report.category = "GEAR"
    /\ (~queryHas(aiKeywords) /\ ~queryHas(gearKeywords) /\ queryHas(newsKeywords))
         => report.category = "NEWS"
    /\ (~queryHas(aiKeywords) /\ ~queryHas(gearKeywords) /\ ~queryHas(newsKeywords)
          /\ queryHas(productionKeywords))
         => report.category = "PRODUCTION"

\* a report for a query in upper and lower case that holds 'news' and 'ai'
C11_Witness ==
  /\ Reported
  /\ query = <<"N","E","W","S"," ","a","b","o","u","t"," ","t","r","a","i","n","i","n","g">>
  /\ report.category = "AI TOOLS"

\* ------------------------------------------------------------------------
\* Properties of generateDailyQueries (SpecDaily)
\* ------------------------------------------------------------------------

sameDate(a, b) ==
  /\ a.year = b.year /\ a.month = b.month
  /\ a.dayOfMonth = b.dayOfMonth /\ a.dayOfWeek = b.dayOfWeek

\* C12: generateDailyQueries depends on the calendar date only: two calls
\* on the same date return the same queries and the same theme, and every
\* call returns exactly four queries, one from each pool in the order
\* AI tools, gear, news, trending.
C12_PureInDate ==
  /\ \A i, j \in 1..Len(calls) :
       sameDate(calls[i].at, calls[j].at) =>
         /\ calls[i].result.queries = calls[j].result.queries
         /\ calls[i].result.theme = calls[j].result.theme
  /\ \A i \in 1..Len(calls) :
       LET r == calls[i].result
           m == calls[i].at.month
           y == calls[i].at.year
       IN /\ Len(r.queries) = 4
          /\ r.queries[1] \in Range(aiToolsQueries(m, y))
          /\ r.queries[2] \in Range(gearQueries(m, y))
          /\ r.queries[3] \in Range(newsQueries(m, y))
          /\ r.queries[4] \in Range(trendingQueries(m, y))
          /\ r.theme \in Range(monthlyThemes)

\* two calls on one date at different hours, and the day after a
\* different selection
C12_Witness ==
  /\ Len(calls) = 2
  /\ sameDate(calls[1].at, calls[2].at)
  /\ calls[1].at.hour # calls[2].at.hour
  /\ generateDailyQueries(now).queries # calls[1].result.queries

\* ------------------------------------------------------------------------
\* Properties of the session map (SpecSessions)
\* ------------------------------------------------------------------------

\* C13: once /blog has stored the session of a token, no step removes,
\* expires or changes it, however much time passes after createdAt.
C13_SessionKept ==
  [][\A t \in Tokens :
       userSessions[t].exists => userSessions'[t] = userSessions[t]]_vars

\* a session still held days after it was created, while the other
\* token's session was stored later
C13_Witness ==
  /\ userSessions["t1"].exists
  /\ userSessions["t2"].exists
  /\ userSessions["t1"].createdAt.dayOfMonth + 2 <= now.dayOfMonth
  /\ userSessions["t2"].createdAt.dayOfMonth > userSessions["t1"].createdAt.dayOfMonth

\* ------------------------------------------------------------------------
\* Properties of organizePaaIntoNarrative (SpecNarrative)
\* ------------------------------------------------------------------------

\* C14: for n distinct questions the result holds min(4, n) distinct
\* questions, all of them from the input: nothing is repeated or invented,
\* and no input question is left out while a slot remains.
C14_Reordering ==
  narrative.runs = 1 =>
    /\ Len(narrative.result) = Min(4, Len(narrative.questions))
    /\ \A i, j \in 1..Len(narrative.result) :
         i # j => narrative.result[i] # narrative.result[j]
    /\ \A i \in 1..Len(narrative.result) :
         Contains(narrative.questions, narrative.result[i])

inBucket(q, keywords) == IncludesAny(ToLowerCase(q), keywords)
bucketsOf(q) ==
  {k \in 1..4 :
     inBucket(q, <<beginnerKeywords, creativeKeywords, technicalKeywords,
                   comparisonKeywords>>[k])}

\* four questions in beginner, creative, technical, comparison order, each
\* in its own bucket only
OnePerBucketInOrder(questions) ==
  /\ Len(questions) = 4
  /\ \A k \in 1..4 : bucketsOf(questions[k]) = {k}

\* C15: applied to four questions that are already in beginner, creative,
\* technical, comparison order, one per bucket, organizePaaIntoNarrative
\* returns the list unchanged, however often it is applied.
C15_Idempotent ==
  (narrative.runs >= 1 /\ OnePerBucketInOrder(narrative.questions)) =>
    narrative.result = narrative.questions

\* the function was applied twice to an ordered one-per-bucket list
C15_Witness ==
  /\ narrative.runs = 2
  /\ OnePerBucketInOrder(narrative.questions)
  /\ narrative.result = <<p_tutorial, p_create, p_does, p_best>>

\* C16: for the query 'AI mastering tools reviews 2026' with no AI-surface
\* data, two organic results from excluded domains and one dated
\* musictech.com result with a 21-99 character title and a snippet of more
\* than 100 characters (under 1M total results), the report has quality
\* score 65, score 80, status TRENDING and source musictech.com.
C16_Scenario ==
  Reported =>
    /\ report.quality_score = 65
    /\ report.score = 80
    /\ report.status = <<"TRENDING">>
    /\ report.source = host_musictech

\* what the code reports in that scenario
C16_Observed ==
  Reported =>
    /\ report.quality_score = 65
    /\ report.score = 85
    /\ report.status = <<"VIRAL">>
    /\ report.source = host_musictech

\* the questions the two AI surfaces add to an empty list
aiSuppliedQuestions ==
  extractAIOverview(aiOverviewValue,
                    extractAIMode(aiModeValue, <<>>).questions, <<>>).questions

\* the regular search answered and found no question of its own, and the AI
\* surfaces added none
NoQuestionsSupplied ==
  /\ regularData.status = "fulfilled"
  /\ Range(regularData.value.questions) \subseteq Range(regularFallbacks(query, now.year))
  /\ aiSuppliedQuestions = <<>>

firstTwoWords(q) == Join(Take(Split(ToLowerCase(q), " "), 2), <<" ">>)

\* C17: when the regular search and both AI surfaces supply no questions,
\* the report's questions are exactly 3 synthesized fallback questions, each
\* referencing the first 2 words of the query, in the fixed template order.
C17_ThreeFallbacks ==
  Reported /\ NoQuestionsSupplied =>
    /\ Len(report.questions) = 3
    /\ \A i \in 1..Len(report.questions) :
         Includes(report.questions[i], firstTwoWords(query))
    /\ report.questions = Take(regularFallbacks(query, now.year), 3)

\* what the code reports then: the four templates, in their order
C17_Observed ==
  Reported /\ NoQuestionsSupplied =>
    report.questions =
      IF report.category = "ERROR"
      THEN getFallbackSerpData(query).questions
      ELSE regularFallbacks(query, now.year)

\* the AI insights the aggregator collects from the two surfaces
collectedInsights ==
  extractAIOverview(aiOverviewValue, <<>>,
                    extractAIMode(aiModeValue, <<>>).insights).insights

\* a report of the normal path: the aggregation ran to its return
NormalReport == Reported /\ report.category # "ERROR"

\* C18: the final score is clamp(base + 15 if at least one AI surface
\* returned data + 10 if both did + min(3n, 15), 40, 100), n the number of
\* AI insights collected; with both surfaces and 2 insights the bonus is 31
\* and the score is 100 exactly when base >= 69.
C18_AggregatorScore ==
  NormalReport =>
    LET base == regularData.value.score
        n == Len(collectedInsights)
        either == ~aiModeValue.isNull \/ ~aiOverviewValue.isNull
        both == ~aiModeValue.isNull /\ ~aiOverviewValue.isNull
        bonus == (IF either THEN 15 ELSE 0) + (IF both THEN 10 ELSE 0)
                 + Min(3 * n, 15)
    IN /\ report.score = Min(Max(base + bonus, 40), 100)
       /\ both /\ n = 2 => /\ bonus = 31
                           /\ report.score = 100 <=> base >= 69

\* both surfaces returned data, 2 insights were collected, and the base
\* score of 70 became 100
C18_Witness ==
  /\ NormalReport
  /\ ~aiModeValue.isNull /\ ~aiOverviewValue.isNull
  /\ Len(collectedInsights) = 2
  /\ regularData.value.score = 70
  /\ report.score = 100

\* a report whose score is below the clamp: one surface, one insight
C18_Unclamped ==
  /\ NormalReport
  /\ aiModeValue.isNull /\ ~aiOverviewValue.isNull
  /\ Len(collectedInsights) = 1
  /\ report.score = regularData.value.score + 18
  /\ report.score < 100

\* the returned questions that came from the search response, not from the
\* fallback templates
foundQuestions ==
  SelectSeq(regularData.value.questions,
            LAMBDA q : q \notin Range(regularFallbacks(query, now.year)))

qualityBonus(qualityScore) ==
  IF qualityScore > 30 THEN 15
  ELSE IF qualityScore > 20 THEN 10
  ELSE IF qualityScore > 10 THEN 5 ELSE 0

\* C19: the base trend score of the regular search is clamp(40 + 25 + volume
\* + quality + questions, 40, 95): volume +10 above 1M total results, +5
\* more above 5M and +5 more above 10M; quality +15/+10/+5 for a quality
\* score above 30/20/10; +5 if at least 3 questions were found.
C19_BaseScore ==
  regularData.status = "fulfilled" =>
    LET data == regularData.value
        volume == (IF data.total_results > 1000000 THEN 10 ELSE 0)
                  + (IF data.total_results > 5000000 THEN 5 ELSE 0)
                  + (IF data.total_results > 10000000 THEN 5 ELSE 0)
        questions == IF Len(foundQuestions) >= 3 THEN 5 ELSE 0
    IN data.score =
         Min(Max(40 + 25 + volume + qualityBonus(data.quality_score) + questions, 40), 95)

\* what the code computes: no step at 10M, and the +5 of the questions in
\* every case
C19_Observed ==
  regularData.status = "fulfilled" =>
    LET data == regularData.value
        volume == (IF data.total_results > 1000000 THEN 10 ELSE 0)
                  + (IF data.total_results > 5000000 THEN 5 ELSE 0)
    IN data.score =
         Min(Max(40 + 25 + volume + qualityBonus(data.quality_score) + 5, 40), 95)

\* the organic results of a search response
organicOf(fetched) ==
  IF fetched.threw \/ ~fetched.value.organic_results.defined THEN <<>>
  ELSE fetched.value.organic_results.items

\* a result that reaches the scoring: it has a link and a title, its link
\* parses, and its host passes the exclusion filter
survives(result) ==
  /\ result.type # "null"
  /\ result.link.text # "" /\ result.title.len > 0
  /\ result.link.valid
  /\ ~isExcluded(ToLowerCase(result.link.host))

survivors(organic) == {i \in 1..Len(organic) : survives(organic[i])}

scoreOf(result) == currentScore(result, ToLowerCase(result.link.host))

\* the first of the surviving results with the highest quality score
bestSurvivor(organic) ==
  CHOOSE i \in survivors(organic) :
    \A j \in survivors(organic) :
      \/ scoreOf(organic[j]) < scoreOf(organic[i])
      \/ scoreOf(organic[j]) = scoreOf(organic[i]) /\ i <= j

\* the returned data present result as the primary result
isPrimary(data, result) ==
  /\ data.link = result.link
  /\ data.title = result.title
  /\ data.source = ToLowerCase(result.link.host)

\* C20: whenever at least one organic result survives the domain exclusion
\* filter, the primary result is the surviving result with the highest
\* quality score, and among equal scores the first in the organic list.
C20_BestSurvivorPrimary ==
  [][\A f \in PrimaryFetches :
       RegularSettles(f) /\ regularData'.status = "fulfilled"
         /\ survivors(organicOf(f)) # {}
       => isPrimary(regularData'.value, organicOf(f)[bestSurvivor(organicOf(f))])]_vars

\* what the code does: the rule holds once a surviving result scores above 0
C20_Observed ==
  [][\A f \in PrimaryFetches :
       RegularSettles(f) /\ regularData'.status = "fulfilled"
         /\ survivors(organicOf(f)) # {}
         /\ scoreOf(organicOf(f)[bestSurvivor(organicOf(f))]) > 0
       => isPrimary(regularData'.value, organicOf(f)[bestSurvivor(organicOf(f))])]_vars

\* the returned data carry the fields of result, with the placeholder where
\* result has none
builtFrom(data, result) ==
  /\ data.link = (IF result.link.text # "" THEN result.link ELSE noLinkFound)
  /\ data.title = result.title
  /\ data.snippet = (IF result.snippet.len > 0 THEN result.snippet
                     ELSE Text("Stay informed about ", 23 + Min(30, Len(query))))

\* the returned data carry the placeholder link, title and snippet
isPlaceholder(data) ==
  /\ data.link = noLinkFound
  /\ data.title = Text("Latest updates: ", 16 + Min(50, Len(query)))
  /\ data.snippet = Text("Stay informed about ", 23 + Min(30, Len(query)))

\* the record returned for a response none of whose organic results
\* survives: built from the first one with quality score qs, or the
\* placeholder when there is none
fallbackRecord(f, data, qs) ==
  /\ Len(organicOf(f)) > 0 /\ survivors(organicOf(f)) = {}
       => builtFrom(data, organicOf(f)[1]) /\ data.quality_score = qs
  /\ Len(organicOf(f)) = 0 => isPlaceholder(data)

\* C21: when no organic result survives filtering but the list is
\* non-empty, the record is built from the first raw organic result and its
\* reported quality score is 5; when the list is empty, the placeholder
\* link, title and snippet are returned.
C21_FallbackRecord ==
  [][\A f \in PrimaryFetches :
       RegularSettles(f) /\ regularData'.status = "fulfilled"
       => fallbackRecord(f, regularData'.value, 5)]_vars

\* what the code returns: the same record with quality score 0
C21_Observed ==
  [][\A f \in PrimaryFetches :
       RegularSettles(f) /\ regularData'.status = "fulfilled"
       => fallbackRecord(f, regularData'.value, 0)]_vars

\* C22: getRegularSerpData never lets an upstream failure propagate: when
\* the search request or the parsing of its response throws, the caller
\* receives a fallback record (score 40, placeholder link and snippet, 3
\* synthesized questions), not an exception.
C22_FetcherNeverThrows ==
  [][RegularSettles(Thrown) =>
       /\ regularData'.status = "fulfilled"
       /\ regularData'.value.score = 40
       /\ regularData'.value.link = noLinkFound
       /\ Len(regularData'.value.questions) = 3]_vars

\* what the code does: the promise of getRegularSerpData is rejected
C22_Observed ==
  [][RegularSettles(Thrown) => regularData'.status = "rejected"]_vars

\* the question strings of one AI surface's array: the first 5 items, those
\* with a question
suppliedBy(array) ==
  IF array.defined THEN surfaceQuestions(array).questions ELSE <<>>

\* the questions the AI-mode surface supplied, if it returned data
modeSupplied ==
  IF aiModeValue.isNull THEN <<>> ELSE suppliedBy(aiModeValue.related_questions)

\* the questions the AI-overview surface supplied, if it returned data
overviewSupplied ==
  IF aiOverviewValue.isNull \/ ~aiOverviewValue.ai_overview.defined THEN <<>>
  ELSE suppliedBy(aiOverviewValue.ai_overview.questions)

\* C23: the questions of a report are the base questions, then the AI-mode
\* questions, then the AI-overview questions, without duplicates (first
\* occurrence kept) and cut to the first 7; every question of a surface
\* that returned data (up to 5 per surface) is a candidate.
C23_QuestionUnion ==
  NormalReport =>
    report.questions =
      Take(Dedupe(regularData.value.questions \o modeSupplied \o overviewSupplied), 7)

\* what the code does: the AI-mode questions are candidates only when the
\* AI-mode response also has organic_results
C23_Observed ==
  NormalReport =>
    report.questions =
      Take(Dedupe(regularData.value.questions
                  \o (IF aiModeValue.organic_results.defined
                      THEN modeSupplied ELSE <<>>)
                  \o overviewSupplied), 7)

\* the label of a status without the AI indicator
label(status) ==
  IF Len(status) > 1 /\ SubSeq(status, 1, Len(aiMarker)) = aiMarker
  THEN SubSeq(status, Len(aiMarker) + 1, Len(status)) ELSE status

hasAiMarker(status) ==
  Len(status) > 1 /\ SubSeq(status, 1, Len(aiMarker)) = aiMarker

\* C24: on every non-fallback report the status is VIRAL iff the final
\* score is above 75, TRENDING iff it is in (60, 75], STEADY otherwise, and
\* it carries the AI prefix iff ai_enhanced is true, i.e. iff at least one
\* AI surface returned data.
C24_StatusFromScore ==
  NormalReport =>
    /\ label(report.status) = <<"VIRAL">> <=> report.score > 75
    /\ label(report.status) = <<"TRENDING">> <=>
         (report.score > 60 /\ report.score <= 75)
    /\ label(report.status) = <<"STEADY">> <=> report.score <= 60
    /\ hasAiMarker(report.status) <=> report.ai_enhanced
    /\ report.ai_enhanced <=> (~aiModeValue.isNull \/ ~aiOverviewValue.isNull)

\* a VIRAL report marked as AI-enhanced with data from the overview only
C24_Witness ==
  /\ NormalReport
  /\ aiModeValue.isNull /\ ~aiOverviewValue.isNull
  /\ report.score > 75
  /\ report.status = aiMarker \o <<"VIRAL">>

\* a TRENDING report without AI data
C24_Trending ==
  /\ NormalReport
  /\ report.score = 70
  /\ report.status = <<"TRENDING">>
  /\ ~report.ai_enhanced

\* the workflows that issue search requests, and the call each one waits on
Workflows == Tokens \cup {"scout"}
callOf(sc, fl, w) == IF w = "scout" THEN sc.call ELSE fl[w].call
pcOf(sc, fl, w) == IF w = "scout" THEN sc.pc ELSE fl[w].pc
iterationOf(sc, fl, w) == IF w = "scout" THEN sc.i ELSE fl[w].i

\* the search requests a workflow has issued so far
searches(log) == SelectSeq(log, LAMBDA e : e.kind = "search")

\* workflow w issues search requests in this step
IssuesSearch(w) == Len(searches(wire'[w])) > Len(searches(wire[w]))

\* C25: within one workflow the day's queries are processed strictly in
\* sequence: the three fetches of a query are started together, and those
\* of the next query only after all three of the previous one have settled,
\* so at most 3 search requests of a workflow are in flight at any time.
C25_SequentialQueries ==
  [][\A w \in Workflows :
       /\ InFlight(callOf(scout', flow', w)) <= 3
       /\ IssuesSearch(w) =>
            LET old == searches(wire[w])
                new == searches(wire'[w])
            IN /\ InFlight(callOf(scout, flow, w)) = 0
               /\ Len(new) = Len(old) + 3
               /\ SubSeq(new, 1, Len(old)) = old
               /\ \A k \in Len(old) + 1 .. Len(new) :
                    new[k].query = callOf(scout', flow', w).query
               /\ InFlight(callOf(scout', flow', w)) = 3
               /\ Len(new) = 3 * iterationOf(scout', flow', w)]_vars

\* the scout and the /blog command both wait on the fetches of their second
\* query, six requests in all
C25_Witness ==
  /\ scout.pc = "fetching" /\ scout.i = 2 /\ InFlight(scout.call) = 3
  /\ flow["t1"].pc = "fetching" /\ flow["t1"].i = 2
  /\ InFlight(flow["t1"].call) = 3
  /\ Len(searches(wire["scout"])) = 6
  /\ Len(searches(wire["t1"])) = 6

\* workflow w starts the fetches of a query after its first in this step
StartsNextQuery(w) == IssuesSearch(w) /\ iterationOf(scout', flow', w) > 1

\* C26: in every workflow that iterates over the day's queries, the /blog
\* command as well as the scout job, a delay step lies between the
\* completion of one query's fetches and the start of the next query's.
C26_DelayBetweenQueries ==
  [][\A w \in Workflows :
       StartsNextQuery(w) => pcOf(scout, flow, w) = "delay"]_vars

\* what the code does: the scout waits, the /blog command starts the next
\* query in the step in which the previous one returns
C26_Observed ==
  [][/\ StartsNextQuery("scout") => scout.pc = "delay"
     /\ \A t \in Tokens :
          StartsNextQuery(t) => flow[t].pc = "fetching" /\ AllSettled(flow[t].call)]_vars

\* the command of token t was accepted: its background workflow runs
Accepted(t) == flow[t].command \in {"blog", "outlines"}

\* the workflow of token t has issued its last edit of the original
\* response: the result message, or the error message
FinalEditIssued(t) ==
  \E k \in 1..Len(wire[t]) :
    /\ wire[t][k].kind = "edit"
    /\ wire[t][k].detail \in {"topics", "outlines", "error"}

\* C27: if every outbound call eventually settles, every accepted /blog or
\* /outlines command eventually issues a final edit of the original
\* response for its token, the result message or an error message.
C27_FinalEditEventually ==
  \A t \in Tokens : Accepted(t) ~> FinalEditIssued(t)

\* a /blog command whose regular search failed for some query has sent its
\* topic list, and an /outlines command has sent its outlines
C27_Witness ==
  /\ flow["t1"].command = "blog" /\ flow["t1"].pc = "done"
  /\ \E k \in 1..Len(flow["t1"].dailyTopics) :
       flow["t1"].dailyTopics[k].category = "ERROR"
  /\ FinalEditIssued("t1")
  /\ flow["t2"].command = "outlines" /\ flow["t2"].pc = "done"
  /\ FinalEditIssued("t2")

\* the /blog workflow of token t has gone past its loop
BlogCompleted(t) ==
  flow[t].command = "blog" /\ flow[t].pc \in {"final", "done"}

\* C28: when two /blog commands with distinct tokens run interleaved, after
\* both complete the session map holds one entry per token, each with
\* exactly the topics fetched by that token's own workflow; neither
\* workflow overwrites or alters the other's session.
C28_SessionsPerToken ==
  \A t \in Tokens :
    /\ BlogCompleted(t) =>
         /\ userSessions[t].exists
         /\ userSessions[t].topics = flow[t].dailyTopics
         /\ Len(userSessions[t].topics) = Len(flow[t].daily.queries)
         /\ \A q \in Range(flow[t].daily.queries) :
              \E k \in 1..Len(userSessions[t].topics) :
                userSessions[t].topics[k].query = q
    /\ userSessions[t].exists => BlogCompleted(t)

\* both commands have completed; the search of t1 failed for every query
\* and that of t2 for none, and each session holds its own topics
C28_Witness ==
  /\ flow["t1"].command = "blog" /\ flow["t1"].pc = "done"
  /\ flow["t2"].command = "blog" /\ flow["t2"].pc = "done"
  /\ userSessions["t1"].exists /\ userSessions["t2"].exists
  /\ \A k \in 1..Len(userSessions["t1"].topics) :
       userSessions["t1"].topics[k].category = "ERROR"
  /\ \A k \in 1..Len(userSessions["t2"].topics) :
       userSessions["t2"].topics[k].category # "ERROR"

\* the topic-selection message of token t has been sent
TopicsSent(t) ==
  \E k \in 1..Len(wire[t]) :
    wire[t][k].kind = "edit" /\ wire[t][k].detail = "topics"

\* C29: when the /blog topic-selection message is sent, the session of that
\* token exists and its topics are in the order of the topics listed in the
\* message, by descending score, so the N-th displayed topic is the N-th
\* topic of the stored session.
C29_SessionMatchesMessage ==
  \A t \in Tokens :
    TopicsSent(t) =>
      /\ userSessions[t].exists
      /\ Len(userSessions[t].topics) = Len(flow[t].shown)
      /\ \A n \in 1..Len(flow[t].shown) :
           userSessions[t].topics[n] = flow[t].shown[n]
      /\ \A n \in 1..Len(flow[t].shown) - 1 :
           flow[t].shown[n].score >= flow[t].shown[n + 1].score

\* the message is sent, and the sort moved the first query's topic, whose
\* search failed, to the last place
C29_Witness ==
  /\ TopicsSent("t1")
  /\ userSessions["t1"].exists
  /\ LET topics == userSessions["t1"].topics IN
     /\ Len(topics) = 4
     /\ topics[4].query = flow["t1"].daily.queries[1]
     /\ topics[4].score < topics[1].score

\* C30: for every successful regular search the base trend score lies in
\* [70, 95]: the fallback questions are added before the question count is
\* tested, so the +5 always applies, the lower clamp bound 40 is never
\* reached, and a non-ERROR report never has the status STEADY.
C30_BaseAtLeast70 ==
  /\ regularData.status = "fulfilled" =>
       regularData.value.score >= 70 /\ regularData.value.score <= 95
  /\ NormalReport =>
       /\ report.score >= 70
       /\ label(report.status) # <<"STEADY">>

\* a search that found nothing: no organic result, no question, no volume;
\* its base score is 70 and the report without AI data is TRENDING
C30_Witness ==
  /\ NormalReport
  /\ regularData.value.quality_score = 0
  /\ regularData.value.total_results = 0
  /\ regularData.value.questions = regularFallbacks(query, now.year)
  /\ regularData.value.score = 70
  /\ report.status = <<"TRENDING">>

====
